---- MODULE Spec2Model ----
(***************************************************************************)
(* Model of claude-swarm: the persistent state store (state.py), the       *)
(* budgeted worker pool (orchestrator.py, _execute_workers) and the        *)
(* top-level pipeline (orchestrator.py, run).                              *)
(*                                                                         *)
(* Money is counted in cents so that the float comparisons of the source   *)
(* become integer comparisons.  Timestamps produced by _now() are the      *)
(* token Now; optional fields that are absent hold None (strings) or       *)
(* NoCost (cost_usd).                                                      *)
(***************************************************************************)
EXTENDS Integers, Sequences, FiniteSets, Bags, TLC

\* ------------------------------------------------------------------ bounds
MaxTasks == 3
MaxWorkersCfg == 2
MaxOps == 4
MaxRetries == 4
MaxGitRetries == 3

\* --------------------------------------------------------------- universes
RunIds == {"r1", "r2"}
None == "None"
NoCost == -1
Now == "now"
SkippedError == "Skipped: cost limit exceeded"
ExceptionText == "agent crashed"

VARIABLES
    state_file,     \* <repo>/.claude-swarm/state.json: [exists, data]
    serial,         \* history: the mutators applied one after another in memory
    last_op,        \* history: the last StateManager call and the document it loaded
    ops_done,       \* number of StateManager calls issued (bounds SpecDoc)
    config,         \* SwarmConfig: [max_workers, max_cost, ...]
    plan_tasks,     \* plan.tasks as the sequence of their worker ids
    exec_pc,        \* position of _execute_workers
    created,        \* worktrees created (and workers registered) so far
    slot_pc,        \* position of each launch_with_throttle coroutine
    sem_value,      \* free permits of the pool semaphore
    running_cost,   \* _running_cost
    cost_exceeded,  \* _cost_exceeded
    runner_result,  \* result spawn_worker_with_retry returned to a slot
    slot_result,    \* what each coroutine returned to gather
    final_results,  \* the list _execute_workers returns
    executed,       \* history: slots handed to the Worker Runner
    finished_before,\* history: runner calls that ended before the tally crossed
    entry_flag,     \* history: value of _cost_exceeded when the slot got its permit
    caught,         \* history: slots whose exception the except clause caught
    tmp_file,       \* the sibling temp file of save: [exists, data]
    writer_pc,      \* position of the writing process inside a StateManager call
    writer_doc,     \* the document the call in progress is saving
    reader_pc,      \* position of a reading process inside load
    reader_result,  \* the document the reader's load returned
    reader_seen,    \* history: documents installed since the reader's load began
    committed,      \* history: the document the last completed save installed
    failed_saves,   \* history: number of saves that raised
    run_pc,         \* position of Orchestrator.run (and of the CLI around it)
    run_error,      \* the last exception raised under run(), caught or not
    integration_success, \* run(): integration_success
    run_pr_url,     \* run(): pr_url
    status_log,     \* history: the statuses persisted for run RID, in order
    branches,       \* git: the branches swarm/<run_id>/<x> of the repository
    disk_worktrees, \* git: the worktrees .swarm-worktrees/<run_id>/<x> on disk
    mgr_worktrees,  \* WorktreeManager._worktrees of the running process
    gc_auto_off,    \* git config: gc.auto is set to 0
    mgr_gc_disabled,\* WorktreeManager._gc_disabled of the running process
    coord_dir,      \* the run's coordination directory exists
    integ_pc,       \* position of integrate_results
    integ_args,     \* arguments of the integrate_results call in progress
    merge_index,    \* index of the successful worker being merged
    merged_branches,\* integrate_results: merged_branches
    integ_log,      \* history: git, command and GitHub steps of integration
    integ_result,   \* what integrate_results returned or raised
    resume_pc,      \* position of the resume command
    resume_completed, \* resume: completed, as worker ids
    resume_selected,\* history: the worker ids resume chose to re-execute
    retry_pc,       \* position of spawn_worker_with_retry
    retry_cfg,      \* its arguments: [max_retries, enable_escalation]
    attempts,       \* history: the attempts made, as [model, success]
    retry_result,   \* what spawn_worker_with_retry returned
    cleanup_pc,     \* position of Orchestrator.cleanup
    cleanup_log,    \* history: the cleanup steps attempted, as [step, ok]
    agent_tasks,    \* history: the task list of the planning agent's output
    issue,          \* the Issue Driver and its issue: [pc, run, labels, open, comments]
    git_call,       \* one _run_git call: [pc, retries, check, runs, result]
    last_event,     \* kind of the last record of the run's events.jsonl
    events          \* the records of the run's events.jsonl, as a bag

store_vars == <<state_file, serial, last_op, ops_done, status_log>>
pool_vars == <<config, plan_tasks, exec_pc, created, slot_pc, sem_value,
               running_cost, cost_exceeded, runner_result, slot_result,
               final_results, executed, finished_before, entry_flag, caught>>
file_vars == <<tmp_file, writer_pc, writer_doc, reader_pc, reader_result,
               reader_seen, committed, failed_saves>>
run_vars == <<run_pc, run_error, integration_success, run_pr_url>>
git_vars == <<branches, disk_worktrees, mgr_worktrees, gc_auto_off,
              mgr_gc_disabled, coord_dir>>
integ_vars == <<integ_pc, integ_args, merge_index, merged_branches, integ_log,
                integ_result>>
resume_vars == <<resume_pc, resume_completed, resume_selected>>
aux_vars == <<retry_pc, retry_cfg, attempts, retry_result, cleanup_pc,
              cleanup_log, agent_tasks, issue, git_call>>
env_vars == <<git_vars, integ_vars, resume_vars, aux_vars, last_event,
              events>>
vars == <<store_vars, pool_vars, file_vars, run_vars, env_vars>>

\* ------------------------------------------------------- state.py: models
\* WorkerState(worker_id, title, branch, started_at) with the field defaults
WorkerState(started_at) ==
    [status |-> "pending", cost_usd |-> NoCost, error |-> None,
     started_at |-> started_at, completed_at |-> None]

\* RunState(...) as start_run builds it
RunState(status) ==
    [status |-> status, plan |-> [set |-> FALSE, tasks |-> <<>>],
     workers |-> [w \in {} |-> 0], pr_url |-> None,
     total_cost_usd |-> 0, error |-> None]

\* SwarmState() with its defaults
SwarmState ==
    [version |-> 1, active_run |-> None, runs |-> [r \in {} |-> 0]]

\* --------------------------------------------------- state.py: file format
\* state.model_dump_json: the document as the sequence of its top-level
\* members; a file holding fewer members is a truncated JSON text.
model_dump_json(state) ==
    << [k |-> "version", v |-> state.version],
       [k |-> "active_run", v |-> state.active_run],
       [k |-> "runs", v |-> state.runs] >>

\* json.loads + SwarmState.model_validate succeed only on a complete text
json_valid(data) == Len(data) = 3

model_validate_one_run(data) ==
    [version |-> data[1].v, active_run |-> data[2].v,
     runs |-> [r \in DOMAIN data[3].v \cap {data[2].v} |-> data[3].v[r]]]

model_validate(data) ==
    [version |-> data[1].v, active_run |-> data[2].v, runs |-> data[3].v]

NoFile == [exists |-> FALSE, data |-> <<>>]

\* StateManager.load applied to the bytes a reader obtained
load_from(file) ==
    IF ~file.exists THEN SwarmState
    ELSE IF json_valid(file.data) THEN model_validate(file.data)
    ELSE SwarmState

load == load_from(state_file)

\* StateManager.save as one uninterrupted call: the temp file is written in
\* full and os.replace installs it
save(state) == [exists |-> TRUE, data |-> model_dump_json(state)]

\* ---------------------------------------------- state.py: the mutators
\* Each returns [save, state]: save = FALSE is the early return that leaves
\* the file untouched.
Sum(f) ==
    LET RECURSIVE S(_)
        S(D) == IF D = {} THEN 0
                ELSE LET x == CHOOSE y \in D : TRUE IN f[x] + S(D \ {x})
    IN S(DOMAIN f)

start_run_no_demote(state, run_id) ==
    [save |-> TRUE,
     state |-> [state EXCEPT !.runs = (run_id :> RunState("planning")) @@ @,
                             !.active_run = run_id]]

start_run(state, run_id) ==
    LET demote ==
            /\ state.active_run # None
            /\ state.active_run \in DOMAIN state.runs
            /\ state.runs[state.active_run].status \notin {"completed", "failed"}
        runs1 == IF demote
                 THEN [state.runs EXCEPT ![state.active_run].status = "interrupted"]
                 ELSE state.runs
        runs2 == (run_id :> RunState("planning")) @@ runs1
    IN [save |-> TRUE,
        state |-> [state EXCEPT !.runs = runs2, !.active_run = run_id]]

set_run_status(state, run_id, status) ==
    IF run_id \notin DOMAIN state.runs THEN [save |-> FALSE, state |-> state]
    ELSE [save |-> TRUE,
          state |-> [state EXCEPT !.runs[run_id].status = status]]

set_run_plan(state, run_id, tasks) ==
    IF run_id \notin DOMAIN state.runs THEN [save |-> FALSE, state |-> state]
    ELSE [save |-> TRUE,
          state |-> [state EXCEPT !.runs[run_id].plan =
                                      [set |-> TRUE, tasks |-> tasks]]]

complete_run_keeps_total(state, run_id, pr_url) ==
    IF run_id \notin DOMAIN state.runs THEN [save |-> FALSE, state |-> state]
    ELSE [save |-> TRUE,
          state |-> [state EXCEPT
              !.runs[run_id].status = "completed",
              !.runs[run_id].pr_url = pr_url,
              !.active_run = IF state.active_run = run_id THEN None
                             ELSE state.active_run]]

complete_run(state, run_id, pr_url) ==
    IF run_id \notin DOMAIN state.runs THEN [save |-> FALSE, state |-> state]
    ELSE LET run == state.runs[run_id]
             total == Sum([w \in DOMAIN run.workers |->
                             IF run.workers[w].cost_usd = NoCost THEN 0
                             ELSE run.workers[w].cost_usd])
         IN [save |-> TRUE,
             state |-> [state EXCEPT
                 !.runs[run_id].status = "completed",
                 !.runs[run_id].pr_url = pr_url,
                 !.runs[run_id].total_cost_usd = total,
                 !.active_run = IF state.active_run = run_id THEN None
                                ELSE state.active_run]]

fail_run(state, run_id, error) ==
    IF run_id \notin DOMAIN state.runs THEN [save |-> FALSE, state |-> state]
    ELSE [save |-> TRUE,
          state |-> [state EXCEPT
              !.runs[run_id].status = "failed",
              !.runs[run_id].error = error,
              !.active_run = IF state.active_run = run_id THEN None
                             ELSE state.active_run]]

register_worker(state, run_id, worker_id) ==
    IF run_id \notin DOMAIN state.runs THEN [save |-> FALSE, state |-> state]
    ELSE [save |-> TRUE,
          state |-> [state EXCEPT !.runs[run_id].workers =
                        (worker_id :> WorkerState(Now)) @@ @]]

\* fields is a record; a key that WorkerState does not have is ignored
update_worker(state, run_id, worker_id, fields) ==
    IF run_id \notin DOMAIN state.runs THEN [save |-> FALSE, state |-> state]
    ELSE IF worker_id \notin DOMAIN state.runs[run_id].workers
         THEN [save |-> FALSE, state |-> state]
    ELSE LET worker == state.runs[run_id].workers[worker_id]
             updated == [key \in DOMAIN worker |->
                            IF key \in DOMAIN fields THEN fields[key]
                            ELSE worker[key]]
         IN [save |-> TRUE,
             state |-> [state EXCEPT !.runs[run_id].workers[worker_id] = updated]]

clear_run(state, run_id) ==
    [save |-> TRUE,
     state |-> [state EXCEPT
         !.runs = [r \in (DOMAIN state.runs) \ {run_id} |-> state.runs[r]],
         !.active_run = IF state.active_run = run_id THEN None
                        ELSE state.active_run]]

clear_all(state) == [save |-> TRUE, state |-> SwarmState]

\* One StateManager call: load, mutate, save with no suspension point in
\* between (the methods are synchronous, so within the event loop a call is
\* one step).  result is a mutator applied to the loaded document; in_memory
\* is the same mutator applied to the history serial.
Apply(result) == IF result.save THEN save(result.state) ELSE state_file

Store(result, in_memory) ==
    /\ state_file' = Apply(result)
    /\ serial' = in_memory.state
    /\ status_log' =
         LET after == load_from(Apply(result))
         IN IF "r1" \in DOMAIN after.runs
               /\ (status_log = <<>>
                   \/ after.runs["r1"].status # status_log[Len(status_log)])
            THEN Append(status_log, after.runs["r1"].status)
            ELSE status_log

\* ------------------------------------------------- the store, one caller
StoreOps ==
    [name : {"start_run"}, run_id : RunIds]
    \cup [name : {"set_run_status"}, run_id : RunIds,
          status : {"planning", "executing", "integrating", "completed",
                    "failed", "interrupted", "paused_checkpoint"}]
    \cup [name : {"set_run_plan"}, run_id : RunIds]
    \cup [name : {"complete_run"}, run_id : RunIds]
    \cup [name : {"fail_run"}, run_id : RunIds]
    \cup [name : {"register_worker"}, run_id : RunIds, worker_id : {"w1", "w2"}]
    \cup [name : {"update_worker"}, run_id : RunIds, worker_id : {"w1", "w2"},
          status : {"running", "completed", "failed"}, cost_usd : {NoCost, 3}]
    \cup [name : {"clear_run"}, run_id : RunIds]
    \cup [name : {"clear_all"}]

\* The mutator an operation record names, applied to a loaded document
Mutate(state, op) ==
    CASE op.name = "start_run" -> start_run(state, op.run_id)
      [] op.name = "set_run_status" -> set_run_status(state, op.run_id, op.status)
      [] op.name = "set_run_plan" -> set_run_plan(state, op.run_id, <<"w1">>)
      [] op.name = "complete_run" -> complete_run(state, op.run_id, None)
      [] op.name = "fail_run" -> fail_run(state, op.run_id, "Integration failed")
      [] op.name = "register_worker" -> register_worker(state, op.run_id, op.worker_id)
      [] op.name = "update_worker" ->
            update_worker(state, op.run_id, op.worker_id,
                          [status |-> op.status, cost_usd |-> op.cost_usd,
                           completed_at |-> Now, no_such_field |-> 1])
      [] op.name = "clear_run" -> clear_run(state, op.run_id)
      [] op.name = "clear_all" -> clear_all(state)

NoOp == [name |-> "none"]

\* ---------------------------------------- orchestrator.py: the worker pool
RID == "r1"
AllTasks == <<"w1", "w2", "w3", "w4", "w5">>

NoResult == [worker_id |-> None, success |-> FALSE, cost_usd |-> NoCost,
             error |-> None]

\* WorkerResult(worker_id=..., success=..., cost_usd=..., error=...)
WorkerResult(worker_id, success, cost_usd, error) ==
    [worker_id |-> worker_id, success |-> success, cost_usd |-> cost_usd,
     error |-> error]

Slots == 1..Len(plan_tasks)

IntegIdle ==
    /\ integ_pc = "idle"
    /\ integ_args = [input |-> <<>>, create_pr |-> FALSE, review |-> FALSE,
                     resolve_conflicts |-> FALSE]
    /\ merge_index = 0
    /\ merged_branches = <<>>
    /\ integ_log = <<>>
    /\ integ_result = [kind |-> "none"]

ResumeIdle ==
    /\ resume_pc = "idle"
    /\ resume_completed = <<>>
    /\ resume_selected = <<>>

\* no Worker Runner call, no emergency cleanup, no Issue Driver, no git
\* call and no event so far, except for the parts named in started, which
\* the specification sets itself
AuxIdle(started) ==
    /\ IF "retry" \in started THEN TRUE
       ELSE /\ retry_pc = "idle"
            /\ retry_cfg = [max_retries |-> 0, enable_escalation |-> FALSE]
            /\ attempts = <<>>
            /\ retry_result = NoResult
    /\ IF "cleanup" \in started THEN TRUE
       ELSE /\ cleanup_pc = "idle"
            /\ cleanup_log = <<>>
    /\ IF "issue" \in started THEN TRUE
       ELSE issue = [pc |-> "idle", run |-> None, labels |-> {},
                     open |-> TRUE, comments |-> <<>>]
    /\ IF "git" \in started THEN TRUE
       ELSE git_call = [pc |-> "idle", retries |-> 0, check |-> FALSE,
                        runs |-> <<>>, result |-> None]
    /\ IF "events" \in started THEN TRUE
       ELSE /\ last_event = None
            /\ events = EmptyBag
    /\ agent_tasks = <<>>

\* a repository with no branch or worktree of the run, gc.auto unset, and
\* neither integrate_results nor resume under way
EnvIdle ==
    /\ branches = {}
    /\ disk_worktrees = {}
    /\ mgr_worktrees = {}
    /\ gc_auto_off = FALSE
    /\ mgr_gc_disabled = FALSE
    /\ coord_dir = FALSE
    /\ IntegIdle
    /\ ResumeIdle
    /\ AuxIdle({})

RunIdle ==
    /\ run_pc = "idle"
    /\ run_error = None
    /\ integration_success = FALSE
    /\ run_pr_url = None

DefaultConfig ==
    [max_workers |-> 1, max_cost |-> 5, oversight |-> "pr-gated",
     dry_run |-> FALSE, create_pr |-> TRUE]

FileIdle ==
    /\ tmp_file = NoFile
    /\ writer_pc = "idle"
    /\ writer_doc = SwarmState
    /\ reader_pc = "idle"
    /\ reader_result = SwarmState
    /\ reader_seen = {}
    /\ committed = SwarmState
    /\ failed_saves = 0

PoolIdle ==
    /\ plan_tasks = <<>>
    /\ exec_pc = "idle"
    /\ created = 0
    /\ slot_pc = <<>>
    /\ sem_value = 0
    /\ running_cost = 0
    /\ cost_exceeded = FALSE
    /\ runner_result = <<>>
    /\ slot_result = <<>>
    /\ final_results = <<>>
    /\ executed = {}
    /\ finished_before = 0
    /\ entry_flag = <<>>
    /\ caught = {}

\* session.py 37-46: record appends one line to events.jsonl; the log is
\* kept as the bag of its records together with the kind of the last one
record(entries) ==
    /\ events' = events (+) SetToBag({entries[i] : i \in 1..Len(entries)})
    /\ last_event' = entries[Len(entries)].event

\* the worker record as a reader of the state file sees it
Persisted(worker_id) == load.runs[RID].workers[worker_id]

\* worktree.py 181-183: swarm/<run_id>/<worker_id>
get_branch_name(worker_id) == <<"swarm", "r1", worker_id>>

\* worktree.py 92-100: git worktree add -b <branch> <dir> creates the
\* branch and the directory; git refuses when either already exists
worktree_add_ok(worker_id) ==
    /\ get_branch_name(worker_id) \notin branches
    /\ worker_id \notin disk_worktrees

\* lines 310-318: base branch, gc.auto = 0, coordination directories
ExecSetup ==
    /\ exec_pc = "setup"
    /\ exec_pc' = "creating"
    /\ gc_auto_off' = TRUE
    /\ mgr_gc_disabled' = TRUE
    /\ coord_dir' = TRUE
    /\ UNCHANGED <<store_vars, file_vars, run_vars, integ_vars, resume_vars>>
    /\ UNCHANGED <<branches, disk_worktrees, mgr_worktrees>>
    /\ UNCHANGED <<config, plan_tasks, created, slot_pc, sem_value,
                   running_cost, cost_exceeded, runner_result, slot_result,
                   final_results, executed, finished_before, entry_flag, caught>>
    /\ UNCHANGED <<aux_vars, last_event, events>>

\* _execute_workers, lines 323-329: one worktree, then register_worker
CreateWorktree ==
    /\ exec_pc = "creating"
    /\ created < Len(plan_tasks)
    /\ worktree_add_ok(plan_tasks[created + 1])
    /\ created' = created + 1
    /\ branches' = branches \cup {get_branch_name(plan_tasks[created + 1])}
    /\ disk_worktrees' = disk_worktrees \cup {plan_tasks[created + 1]}
    /\ mgr_worktrees' = mgr_worktrees \cup {plan_tasks[created + 1]}
    /\ Store(register_worker(load, RID, plan_tasks[created + 1]),
             register_worker(serial, RID, plan_tasks[created + 1]))
    /\ UNCHANGED <<file_vars, run_vars, integ_vars, resume_vars>>
    /\ UNCHANGED <<gc_auto_off, mgr_gc_disabled, coord_dir>>
    /\ UNCHANGED <<last_op, ops_done, config, plan_tasks, exec_pc, slot_pc,
                   sem_value, running_cost, cost_exceeded, runner_result,
                   slot_result, final_results, executed, finished_before,
                   entry_flag, caught>>
    /\ UNCHANGED <<aux_vars, last_event, events>>

\* git worktree add failed: WorktreeError leaves _execute_workers
CreateWorktreeRaises ==
    /\ exec_pc = "creating"
    /\ created < Len(plan_tasks)
    /\ exec_pc' = "raised"
    /\ UNCHANGED <<file_vars, env_vars, run_vars>>
    /\ UNCHANGED <<store_vars, config, plan_tasks, created, slot_pc, sem_value,
                   running_cost, cost_exceeded, runner_result, slot_result,
                   final_results, executed, finished_before, entry_flag, caught>>

\* lines 333-439: the semaphore, the two shared locals, and gather(*coros)
Launch ==
    /\ exec_pc = "creating"
    /\ created = Len(plan_tasks)
    /\ exec_pc' = "gathering"
    /\ slot_pc' = [i \in Slots |-> "sleeping"]
    /\ sem_value' = config.max_workers
    /\ running_cost' = 0
    /\ cost_exceeded' = FALSE
    /\ runner_result' = [i \in Slots |-> NoResult]
    /\ slot_result' = [i \in Slots |-> NoResult]
    /\ entry_flag' = [i \in Slots |-> "none"]
    /\ UNCHANGED <<file_vars, env_vars, run_vars>>
    /\ UNCHANGED <<store_vars, config, plan_tasks, created, final_results,
                   executed, finished_before, caught>>

\* line 340: the stagger delay of slot i is over
Wake(i) ==
    /\ exec_pc = "gathering"
    /\ slot_pc[i] = "sleeping"
    /\ slot_pc' = [slot_pc EXCEPT ![i] = "acquiring"]
    /\ UNCHANGED <<file_vars, env_vars, run_vars>>
    /\ UNCHANGED <<store_vars, config, plan_tasks, exec_pc, created, sem_value,
                   running_cost, cost_exceeded, runner_result, slot_result,
                   final_results, executed, finished_before, entry_flag, caught>>

\* line 344: the test made right after the permit is obtained
skip_check_never == FALSE

skip_check == cost_exceeded

\* lines 346-351: what the skip branch persists
skip_fields_no_status == [error |-> SkippedError]

skip_fields ==
    [status |-> "failed", error |-> SkippedError, completed_at |-> Now]

\* lines 359-362
running_fields == [status |-> "running", started_at |-> Now]

\* lines 420-425: what the except clause persists
exception_fields_no_status == [error |-> ExceptionText]

exception_fields ==
    [status |-> "failed", error |-> ExceptionText, completed_at |-> Now]

\* lines 388-399: what a returned result persists
result_fields_no_completed_at(result) ==
    [status |-> IF result.success THEN "completed" ELSE "failed",
     cost_usd |-> result.cost_usd, error |-> result.error]

result_fields(result) ==
    [status |-> IF result.success THEN "completed" ELSE "failed",
     cost_usd |-> result.cost_usd, error |-> result.error,
     completed_at |-> Now]

\* line 342: a permit is free
sem_free_always == TRUE

sem_free == sem_value > 0

\* line 402: the breaker trips on a tally strictly above max_cost
exceeds_never(tally, max_cost) == FALSE

exceeds(tally, max_cost) == tally > max_cost

\* lines 342-362: slot i obtains a permit and, without suspending, either
\* skips (and gives the permit back on return) or starts the Worker Runner
Acquire(i) ==
    /\ exec_pc = "gathering"
    /\ slot_pc[i] = "acquiring"
    /\ sem_free
    /\ entry_flag' = [entry_flag EXCEPT ![i] = IF cost_exceeded THEN "set" ELSE "clear"]
    /\ IF skip_check
       THEN /\ Store(update_worker(load, RID, plan_tasks[i], skip_fields),
             update_worker(serial, RID, plan_tasks[i], skip_fields))
            /\ slot_result' = [slot_result EXCEPT ![i] =
                    WorkerResult(plan_tasks[i], FALSE, NoCost, SkippedError)]
            /\ slot_pc' = [slot_pc EXCEPT ![i] = "done"]
            /\ UNCHANGED <<sem_value, executed, last_event, events>>
       ELSE /\ Store(update_worker(load, RID, plan_tasks[i], running_fields),
             update_worker(serial, RID, plan_tasks[i], running_fields))
            /\ slot_pc' = [slot_pc EXCEPT ![i] = "running"]
            /\ sem_value' = sem_value - 1
            /\ executed' = executed \cup {i}
            /\ record(<<[event |-> "worker_start",
                         worker_id |-> plan_tasks[i]]>>)
            /\ UNCHANGED slot_result
    /\ UNCHANGED <<file_vars, git_vars, integ_vars, resume_vars, aux_vars,
                   run_vars>>
    /\ UNCHANGED <<last_op, ops_done, config, plan_tasks, exec_pc, created,
                   running_cost, cost_exceeded, runner_result, final_results,
                   finished_before, caught>>

\* lines 365-377: spawn_worker_with_retry returned; the slot now awaits
\* get_worktree_changed_files
RunnerReturns(i) ==
    /\ exec_pc = "gathering"
    /\ slot_pc[i] = "running"
    /\ \E success \in BOOLEAN, cost \in {NoCost, 5, 10} :
         runner_result' = [runner_result EXCEPT ![i] =
             WorkerResult(plan_tasks[i], success, cost,
                          IF success THEN None ELSE "Worker reported error")]
    /\ slot_pc' = [slot_pc EXCEPT ![i] = "collecting"]
    /\ UNCHANGED <<file_vars, env_vars, run_vars>>
    /\ UNCHANGED <<store_vars, config, plan_tasks, exec_pc, created, sem_value,
                   running_cost, cost_exceeded, slot_result, final_results,
                   executed, finished_before, entry_flag, caught>>

CatchException_keeps_permit(i) ==
    /\ Store(update_worker(load, RID, plan_tasks[i], exception_fields),
             update_worker(serial, RID, plan_tasks[i], exception_fields))
    /\ slot_result' = [slot_result EXCEPT ![i] =
            WorkerResult(plan_tasks[i], FALSE, NoCost, ExceptionText)]
    /\ slot_pc' = [slot_pc EXCEPT ![i] = "done"]
    /\ sem_value' = sem_value
    /\ caught' = caught \cup {i}
    /\ record(<<[event |-> "worker_error", worker_id |-> plan_tasks[i]]>>)
    /\ finished_before' = IF cost_exceeded THEN finished_before
                          ELSE finished_before + 1
    /\ UNCHANGED <<file_vars, git_vars, integ_vars, resume_vars, aux_vars,
                   run_vars>>
    /\ UNCHANGED <<last_op, ops_done, config, plan_tasks, exec_pc, created,
                   running_cost, cost_exceeded, runner_result, final_results,
                   executed, entry_flag>>

\* lines 418-431: the except clause, then the permit is given back
CatchException(i) ==
    /\ Store(update_worker(load, RID, plan_tasks[i], exception_fields),
             update_worker(serial, RID, plan_tasks[i], exception_fields))
    /\ slot_result' = [slot_result EXCEPT ![i] =
            WorkerResult(plan_tasks[i], FALSE, NoCost, ExceptionText)]
    /\ slot_pc' = [slot_pc EXCEPT ![i] = "done"]
    /\ sem_value' = sem_value + 1
    /\ caught' = caught \cup {i}
    /\ record(<<[event |-> "worker_error", worker_id |-> plan_tasks[i]]>>)
    /\ finished_before' = IF cost_exceeded THEN finished_before
                          ELSE finished_before + 1
    /\ UNCHANGED <<file_vars, git_vars, integ_vars, resume_vars, aux_vars,
                   run_vars>>
    /\ UNCHANGED <<last_op, ops_done, config, plan_tasks, exec_pc, created,
                   running_cost, cost_exceeded, runner_result, final_results,
                   executed, entry_flag>>

\* spawn_worker_with_retry raised
RunnerRaises(i) ==
    /\ exec_pc = "gathering"
    /\ slot_pc[i] = "running"
    /\ CatchException(i)

\* get_worktree_changed_files raised
ChangedFilesRaises(i) ==
    /\ exec_pc = "gathering"
    /\ slot_pc[i] = "collecting"
    /\ CatchException(i)

\* lines 378-416: the result is persisted, the tally and the flag are
\* updated, the slot returns and the permit is given back
RecordResult(i) ==
    /\ exec_pc = "gathering"
    /\ slot_pc[i] = "collecting"
    /\ LET result == runner_result[i]
           tally == IF result.cost_usd # NoCost
                    THEN running_cost + result.cost_usd ELSE running_cost
           trips == result.cost_usd # NoCost /\ exceeds(tally, config.max_cost)
       IN /\ Store(update_worker(load, RID, plan_tasks[i], result_fields(result)),
             update_worker(serial, RID, plan_tasks[i], result_fields(result)))
          /\ running_cost' = tally
          /\ cost_exceeded' = (cost_exceeded \/ trips)
          /\ slot_result' = [slot_result EXCEPT ![i] = result]
          /\ finished_before' = IF cost_exceeded \/ trips THEN finished_before
                                ELSE finished_before + 1
    /\ slot_pc' = [slot_pc EXCEPT ![i] = "done"]
    /\ sem_value' = sem_value + 1
    /\ record(<<[event |-> "worker_complete", worker_id |-> plan_tasks[i],
                 success |-> runner_result[i].success]>>)
    /\ UNCHANGED <<file_vars, git_vars, integ_vars, resume_vars, aux_vars,
                   run_vars>>
    /\ UNCHANGED <<last_op, ops_done, config, plan_tasks, exec_pc, created,
                   runner_result, final_results, executed, entry_flag, caught>>

\* lines 439-454: gather returns once every coroutine has returned
PoolReturn ==
    /\ exec_pc = "gathering"
    /\ \A i \in Slots : slot_pc[i] = "done"
    /\ final_results' = [i \in Slots |-> slot_result[i]]
    /\ exec_pc' = "returned"
    /\ UNCHANGED <<file_vars, env_vars, run_vars>>
    /\ UNCHANGED <<store_vars, config, plan_tasks, created, slot_pc, sem_value,
                   running_cost, cost_exceeded, runner_result, slot_result,
                   executed, finished_before, entry_flag, caught>>

\* _execute_workers has returned: its locals (the semaphore, the tally, the
\* flag, the coroutines) are gone, and the histories kept about them end
LocalsDropped ==
    /\ slot_pc' = <<>>
    /\ sem_value' = 0
    /\ running_cost' = 0
    /\ cost_exceeded' = FALSE
    /\ runner_result' = <<>>
    /\ slot_result' = <<>>
    /\ executed' = {}
    /\ finished_before' = 0
    /\ entry_flag' = <<>>
    /\ caught' = {}

PoolStep ==
    \/ ExecSetup
    \/ CreateWorktree
    \/ CreateWorktreeRaises
    \/ Launch
    \/ \E i \in Slots : Wake(i)
    \/ \E i \in Slots : Acquire(i)
    \/ \E i \in Slots : RunnerReturns(i)
    \/ \E i \in Slots : RunnerRaises(i)
    \/ \E i \in Slots : ChangedFilesRaises(i)
    \/ \E i \in Slots : RecordResult(i)
    \/ PoolReturn

\* _execute_workers called on a run that start_run registered (the tests,
\* and resume after set_run_status(EXECUTING)), with any plan
StartedDoc ==
    set_run_status(start_run(SwarmState, RID).state, RID, "executing").state

PoolInit ==
    /\ state_file = save(StartedDoc)
    /\ serial = StartedDoc
    /\ last_op = [op |-> [name |-> "none"], before |-> SwarmState]
    /\ ops_done = 0
    /\ status_log = <<"planning", "executing">>
    /\ RunIdle
    /\ config \in [max_workers : 1..MaxWorkersCfg, max_cost : {5},
                    oversight : {"pr-gated"}, dry_run : {FALSE},
                    create_pr : {TRUE}]
    /\ \E n \in 1..MaxTasks : plan_tasks = SubSeq(AllTasks, 1, n)
    /\ exec_pc = "setup"
    /\ created = 0
    /\ slot_pc = <<>>
    /\ sem_value = 0
    /\ running_cost = 0
    /\ cost_exceeded = FALSE
    /\ runner_result = <<>>
    /\ slot_result = <<>>
    /\ final_results = <<>>
    /\ executed = {}
    /\ finished_before = 0
    /\ entry_flag = <<>>
    /\ caught = {}
    /\ FileIdle
    /\ EnvIdle

SpecPool == PoolInit /\ [][PoolStep]_vars

\* The event loop runs every task that is ready, and every Worker Runner
\* call ends: a step of the pool that stays possible is taken.
SpecPoolFair == SpecPool /\ WF_vars(PoolStep)

\* ------------------------------------------------- claims about the pool
PoolLaunched == exec_pc \in {"gathering", "returned"}
PoolDone == exec_pc = "returned"
InRunner == {i \in Slots : PoolLaunched /\ slot_pc[i] \in {"running", "collecting"}}
SkipResult(i) == WorkerResult(plan_tasks[i], FALSE, NoCost, SkippedError)
PersistedSkipped(i) ==
    /\ Persisted(plan_tasks[i]).status = "failed"
    /\ Persisted(plan_tasks[i]).error = SkippedError
    /\ Persisted(plan_tasks[i]).completed_at = Now

C2_SkippedNeverRuns ==
    PoolLaunched =>
        \A i \in Slots :
            entry_flag[i] = "set" =>
                /\ i \notin executed
                /\ slot_pc[i] = "done"
                /\ PersistedSkipped(i)
                /\ slot_result[i] = SkipResult(i)
                /\ PoolDone => final_results[i] = SkipResult(i)

C2_Witness ==
    /\ PoolDone
    /\ \E i \in Slots : entry_flag[i] = "set"
    /\ \E i \in Slots : entry_flag[i] = "clear"

\* C3: with max_workers = 1 at most one worker is inside the Worker Runner;
\* once the flag is set no worker is running, so every task that had not
\* started is skipped; when every executed worker reports a cost above
\* max_cost exactly one worker executes and all others end persisted as
\* failed with the skip error.
C3_SerialBreaker ==
    (PoolLaunched /\ config.max_workers = 1) =>
        /\ Cardinality(InRunner) <= 1
        /\ cost_exceeded => InRunner = {}
        /\ \A i \in Slots : (slot_pc[i] = "done" /\ i \notin executed)
                                => PersistedSkipped(i)
        /\ (PoolDone /\ \A i \in executed : slot_result[i].cost_usd > config.max_cost)
             => /\ Cardinality(executed) = 1
                /\ \A i \in Slots \ executed : PersistedSkipped(i)

C3_Witness ==
    /\ PoolDone
    /\ config.max_workers = 1
    /\ Len(plan_tasks) = 3
    /\ \A i \in executed : slot_result[i].cost_usd = 10
    /\ Cardinality(executed) = 1
    /\ Cardinality({i \in Slots : PersistedSkipped(i)}) = 2

\* C4: an exception inside one slot never aborts the pool: that worker is
\* persisted as failed with the exception text, and _execute_workers
\* returns one result per planned task, in plan order, each slot with its
\* own outcome.
C4_ExceptionContained ==
    /\ caught # {} => PoolLaunched
    /\ PoolLaunched =>
         \A i \in caught :
             /\ Persisted(plan_tasks[i]).status = "failed"
             /\ Persisted(plan_tasks[i]).error = ExceptionText
             /\ Persisted(plan_tasks[i]).completed_at = Now
             /\ slot_result[i] =
                    WorkerResult(plan_tasks[i], FALSE, NoCost, ExceptionText)
    /\ PoolDone =>
         /\ Len(final_results) = Len(plan_tasks)
         /\ \A i \in Slots :
               /\ final_results[i].worker_id = plan_tasks[i]
               /\ i \in caught =>
                     final_results[i].error = ExceptionText
               /\ entry_flag[i] = "set" => final_results[i] = SkipResult(i)
               /\ (i \notin caught /\ entry_flag[i] = "clear") =>
                     /\ final_results[i] = runner_result[i]
                     /\ Persisted(plan_tasks[i]).status =
                            (IF runner_result[i].success THEN "completed"
                             ELSE "failed")

C4_Witness ==
    /\ PoolDone
    /\ config.max_workers = 1
    /\ 1 \in caught
    /\ \E j \in Slots : j \notin caught /\ final_results[j].success

\* C5: at every moment of the execute phase the number of workers whose
\* persisted status is running (those inside the Worker Runner) is at most
\* max_workers.
C5_BoundedConcurrency ==
    PoolLaunched =>
        /\ Cardinality({i \in Slots : Persisted(plan_tasks[i]).status = "running"})
              <= config.max_workers
        /\ Cardinality(InRunner) <= config.max_workers
        /\ sem_value = config.max_workers - Cardinality(InRunner)

C5_Witness ==
    /\ PoolLaunched
    /\ Len(plan_tasks) > config.max_workers
    /\ Cardinality({i \in Slots : Persisted(plan_tasks[i]).status = "running"})
          = config.max_workers
    /\ \E i \in Slots : slot_pc[i] = "acquiring"

DocInit ==
    /\ config = DefaultConfig
    /\ status_log = <<>>
    /\ RunIdle
    /\ PoolIdle
    /\ FileIdle
    /\ EnvIdle
    /\ state_file = NoFile
    /\ serial = SwarmState
    /\ last_op = [op |-> NoOp, before |-> SwarmState]
    /\ ops_done = 0

Call(op) ==
    /\ ops_done < MaxOps
    /\ Store(Mutate(load, op),
             Mutate(serial, op))
    /\ last_op' = [op |-> op, before |-> load]
    /\ ops_done' = ops_done + 1
    /\ UNCHANGED <<pool_vars, file_vars, env_vars, run_vars>>

StartRun == \E op \in StoreOps : op.name = "start_run" /\ Call(op)
SetRunStatus == \E op \in StoreOps : op.name = "set_run_status" /\ Call(op)
SetRunPlan == \E op \in StoreOps : op.name = "set_run_plan" /\ Call(op)
CompleteRun == \E op \in StoreOps : op.name = "complete_run" /\ Call(op)
FailRun == \E op \in StoreOps : op.name = "fail_run" /\ Call(op)
RegisterWorker == \E op \in StoreOps : op.name = "register_worker" /\ Call(op)
UpdateWorker == \E op \in StoreOps : op.name = "update_worker" /\ Call(op)
ClearRun == \E op \in StoreOps : op.name = "clear_run" /\ Call(op)
ClearAll == \E op \in StoreOps : op.name = "clear_all" /\ Call(op)

DocNext ==
    \/ StartRun \/ SetRunStatus \/ SetRunPlan \/ CompleteRun \/ FailRun
    \/ RegisterWorker \/ UpdateWorker \/ ClearRun \/ ClearAll

SpecDoc == DocInit /\ [][DocNext]_vars

\* ------------------------- state.py: save and load as separate processes
\* The orchestrator process makes its StateManager calls one after another;
\* a second process (status, dashboard) loads the file at any moment.  Here
\* save is followed system call by system call.

WriterOps ==
    {op \in StoreOps :
        /\ op.name \in {"start_run", "set_run_status", "register_worker",
                         "update_worker", "complete_run"}
        /\ op.run_id = RID
        /\ op.name = "set_run_status" => op.status = "executing"
        /\ op.name = "register_worker" => op.worker_id = "w1"
        /\ op.name = "update_worker" =>
              op.worker_id = "w1" /\ op.status = "completed" /\ op.cost_usd = 3}

\* lines 101-103: tempfile.mkstemp(dir=state_dir, ...) names a sibling file
save_path_in_place == "state"

save_path == "tmp"

PutFile(path, file) ==
    /\ state_file' = IF path = "state" THEN file ELSE state_file
    /\ tmp_file' = IF path = "state" THEN tmp_file ELSE file

\* a StateManager mutator begins: load, mutate, and (unless it returns
\* early) model_dump_json, lines 99-100
WriterCall ==
    /\ writer_pc = "idle"
    /\ ops_done < MaxOps
    /\ ops_done' = ops_done + 1
    /\ \E op \in WriterOps :
         LET result == Mutate(load, op)
         IN IF result.save
            THEN writer_doc' = result.state /\ writer_pc' = "mkstemp"
            ELSE UNCHANGED <<writer_doc, writer_pc>>
    /\ UNCHANGED <<state_file, serial, last_op, status_log, pool_vars, run_vars, env_vars,
                   tmp_file, reader_pc, reader_result, reader_seen, committed,
                   failed_saves>>

\* lines 101-103: the temp file is created empty
SaveMkstemp ==
    /\ writer_pc = "mkstemp"
    /\ PutFile(save_path, [exists |-> TRUE, data |-> <<>>])
    /\ writer_pc' = "write"
    /\ UNCHANGED <<serial, last_op, ops_done, status_log, pool_vars, run_vars, env_vars,
                   writer_doc, reader_pc,
                   reader_result, reader_seen, committed, failed_saves>>

\* line 106: os.write has put only part of the text into the file so far
SaveWritePart ==
    /\ writer_pc = "write"
    /\ \E n \in 1..2 :
         PutFile(save_path,
                 [exists |-> TRUE,
                  data |-> SubSeq(model_dump_json(writer_doc), 1, n)])
    /\ writer_pc' = "writing"
    /\ UNCHANGED <<serial, last_op, ops_done, status_log, pool_vars, run_vars, env_vars,
                   writer_doc, reader_pc,
                   reader_result, reader_seen, committed, failed_saves>>

\* lines 106-108: the whole text is in the file and the descriptor is closed
SaveWriteAll ==
    /\ writer_pc \in {"write", "writing"}
    /\ PutFile(save_path,
               [exists |-> TRUE, data |-> model_dump_json(writer_doc)])
    /\ writer_pc' = "replace"
    /\ UNCHANGED <<serial, last_op, ops_done, status_log, pool_vars, run_vars, env_vars,
                   writer_doc, reader_pc,
                   reader_result, reader_seen, committed, failed_saves>>

\* line 109: os.replace(tmp_path, state_path) installs the file in one step
SaveReplace ==
    /\ writer_pc = "replace"
    /\ state_file' = IF save_path = "state" THEN state_file ELSE tmp_file
    /\ tmp_file' = IF save_path = "state" THEN tmp_file ELSE NoFile
    /\ committed' = writer_doc
    /\ reader_seen' = IF reader_pc = "reading"
                      THEN reader_seen \cup {writer_doc} ELSE reader_seen
    /\ writer_pc' = "idle"
    /\ UNCHANGED <<serial, last_op, ops_done, status_log, pool_vars, run_vars, env_vars,
                   writer_doc, reader_pc,
                   reader_result, failed_saves>>

\* lines 110-115: os.write or os.replace raised; the temp file is unlinked
\* and the exception leaves save
SaveRaises ==
    /\ writer_pc \in {"write", "writing", "replace"}
    /\ PutFile(save_path, NoFile)
    /\ failed_saves' = failed_saves + 1
    /\ writer_pc' = "idle"
    /\ UNCHANGED <<serial, last_op, ops_done, status_log, pool_vars, run_vars, env_vars,
                   writer_doc, reader_pc,
                   reader_result, reader_seen, committed>>

\* lines 88-89: the reader tests whether the file exists
ReaderExists ==
    /\ reader_pc \in {"idle", "got"}
    /\ reader_seen' = {committed}
    /\ IF state_file.exists
       THEN reader_pc' = "reading" /\ UNCHANGED reader_result
       ELSE reader_pc' = "got" /\ reader_result' = load_from(state_file)
    /\ UNCHANGED <<store_vars, pool_vars, run_vars, env_vars, tmp_file, writer_pc, writer_doc,
                   committed, failed_saves>>

\* lines 90-95: read_text, json.loads, model_validate
ReaderRead ==
    /\ reader_pc = "reading"
    /\ reader_result' = load_from(state_file)
    /\ reader_pc' = "got"
    /\ UNCHANGED <<store_vars, pool_vars, run_vars, env_vars, tmp_file, writer_pc, writer_doc,
                   reader_seen, committed, failed_saves>>

FileInit ==
    /\ state_file = NoFile
    /\ serial = SwarmState
    /\ last_op = [op |-> NoOp, before |-> SwarmState]
    /\ ops_done = 0
    /\ config = DefaultConfig
    /\ status_log = <<>>
    /\ RunIdle
    /\ PoolIdle
    /\ FileIdle
    /\ EnvIdle

FileNext ==
    \/ WriterCall
    \/ SaveMkstemp
    \/ SaveWritePart
    \/ SaveWriteAll
    \/ SaveReplace
    \/ SaveRaises
    \/ ReaderExists
    \/ ReaderRead

SpecFile == FileInit /\ [][FileNext]_vars

\* ------------------------------------------- claims about the state store
\* C6: the document names at most one active run, which is a run it holds;
\* every start_run(new) leaves new as the active run with status planning,
\* and when the document it loaded had another active run that was neither
\* completed nor failed, that run is left with status interrupted.
C6_StartRunDemotesActive ==
    LET state == load
        op == last_op.op
        before == last_op.before
        old == before.active_run
    IN /\ state.active_run \in RunIds \cup {None}
       /\ state.active_run # None => state.active_run \in DOMAIN state.runs
       /\ op.name = "start_run" =>
            /\ state.active_run = op.run_id
            /\ state.runs[op.run_id].status = "planning"
            /\ ( /\ old # None
                 /\ old # op.run_id
                 /\ old \in DOMAIN before.runs
                 /\ before.runs[old].status \notin {"completed", "failed"} )
               => state.runs[old].status = "interrupted"

C6_Witness ==
    /\ last_op.op.name = "start_run"
    /\ last_op.op.run_id = "r2"
    /\ last_op.before.active_run = "r1"
    /\ last_op.before.runs["r1"].status = "executing"
    /\ load.runs["r1"].status = "interrupted"
    /\ load.active_run = "r2"

\* ------------------------------------------ worktree.py: cleanup and gc
\* worktree.py 81-85
restore_gc ==
    /\ gc_auto_off' = IF mgr_gc_disabled THEN FALSE ELSE gc_auto_off
    /\ mgr_gc_disabled' = FALSE

\* what another run of the swarm may have left in the repository
OtherRunWorktree == "r0/w1"

OtherRunBranch == <<"swarm", "r0", "w1">>

\* worktree.py 123-159: force removes every worktree under .swarm-worktrees
\* and deletes every swarm/* branch, of any run; otherwise the worktrees this
\* manager created and the directory of this run are removed, and the
\* branches are kept
cleanup_all_drops_branches(force) ==
    /\ disk_worktrees' = IF force THEN {}
                         ELSE disk_worktrees \cap {OtherRunWorktree}
    /\ mgr_worktrees' = IF force THEN mgr_worktrees
                        ELSE mgr_worktrees \ disk_worktrees
    /\ branches' = {}
    /\ restore_gc

cleanup_all(force) ==
    /\ disk_worktrees' = IF force THEN {}
                         ELSE disk_worktrees \cap {OtherRunWorktree}
    /\ mgr_worktrees' = IF force THEN mgr_worktrees
                        ELSE mgr_worktrees \ disk_worktrees
    /\ branches' = IF force THEN {} ELSE branches
    /\ restore_gc

\* ------------------------------------- integrator.py: integrate_results
\* One call of integrate_results: the integration worktree, the merges in
\* the order of the input, the optional build, test and review, and the PR.
\* git, the commands, the resolver agent and the GitHub CLI are external;
\* each of their calls succeeds or fails, and the choice is free, except
\* that git cannot merge a branch that does not exist.

IntegrationId == "integration"

\* line 48
successful_workers ==
    SelectSeq(integ_args.input, LAMBDA r : r.success)

Returned(success, url, error_msg) ==
    [kind |-> "return", success |-> success, pr_url |-> url,
     error_msg |-> error_msg]

Raised(error, message, conflicting) ==
    [kind |-> "raise", error |-> error, message |-> message,
     conflicting_branches |-> conflicting]

Log(ops) == integ_log' = integ_log \o ops

\* lines 48-57: the checks and the integration worktree
IntegStart ==
    /\ integ_pc = "start"
    /\ successful_workers # <<>>
    /\ worktree_add_ok(IntegrationId)
    /\ branches' = branches \cup {get_branch_name(IntegrationId)}
    /\ disk_worktrees' = disk_worktrees \cup {IntegrationId}
    /\ mgr_worktrees' = mgr_worktrees \cup {IntegrationId}
    /\ integ_pc' = "merging"
    /\ merge_index' = 1
    /\ merged_branches' = <<>>
    /\ Log(<<[op |-> "worktree", branch |-> get_branch_name(IntegrationId)]>>)
    /\ UNCHANGED <<store_vars, pool_vars, file_vars, run_vars, resume_vars>>
    /\ UNCHANGED <<gc_auto_off, mgr_gc_disabled, coord_dir, integ_args,
                   integ_result>>
    /\ UNCHANGED <<aux_vars, last_event, events>>

\* lines 49-56: no successful worker, gh missing when a PR is wanted, or
\* git worktree add failed; each raises before the try block
IntegStartRaises ==
    /\ integ_pc = "start"
    /\ \E e \in {"none", "gh", "worktree"} :
         integ_result' =
           IF successful_workers = <<>>
           THEN Raised("IntegrationError",
                       "No successful workers to integrate", <<>>)
           ELSE IF e = "gh" /\ integ_args.create_pr
           THEN Raised("IntegrationError",
                       "GitHub CLI (gh) is not installed.", <<>>)
           ELSE Raised("WorktreeError", "git worktree add failed", <<>>)
    /\ integ_pc' = "raised"
    /\ UNCHANGED <<store_vars, pool_vars, file_vars, run_vars, resume_vars,
                   git_vars>>
    /\ UNCHANGED <<integ_args, merge_index, merged_branches, integ_log>>
    /\ UNCHANGED <<aux_vars, last_event, events>>

\* where the loop of lines 63-93 goes after merging one more branch
after_merge_first_only == "build"

after_merge == IF merge_index = Len(successful_workers) THEN "build"
               ELSE "merging"

\* line 91: the offending branch, then the branches merged before it
conflicting_merged_only(branch) == merged_branches

conflicting_branches(branch) == <<branch>> \o merged_branches

\* lines 63-70: git merge --no-ff of the next branch succeeded
IntegMerge ==
    /\ integ_pc = "merging"
    /\ LET branch == get_branch_name(successful_workers[merge_index].worker_id)
       IN /\ branch \in branches
          /\ merged_branches' = Append(merged_branches, branch)
          /\ Log(<<[op |-> "merge", branch |-> branch]>>)
    /\ merge_index' = merge_index + 1
    /\ integ_pc' = after_merge
    /\ UNCHANGED <<store_vars, pool_vars, file_vars, run_vars, resume_vars,
                   git_vars>>
    /\ UNCHANGED <<integ_args, integ_result>>
    /\ UNCHANGED <<aux_vars, last_event, events>>

\* lines 84-93: git merge --abort, then MergeConflictError
abort_and_raise(branch, ops) ==
    /\ Log(ops \o <<[op |-> "abort", branch |-> branch]>>)
    /\ integ_result' = Raised("MergeConflictError",
                              "Merge conflict when integrating <branch>",
                              conflicting_branches(branch))
    /\ integ_pc' = "raised"
    /\ UNCHANGED <<merge_index, merged_branches>>

\* lines 71-93: git merge failed; the resolver is tried when enabled
IntegMergeFails ==
    /\ integ_pc = "merging"
    /\ LET branch == get_branch_name(successful_workers[merge_index].worker_id)
           failed == <<[op |-> "merge_failed", branch |-> branch]>>
       IN IF integ_args.resolve_conflicts
          THEN /\ Log(failed)
               /\ integ_pc' = "resolving"
               /\ UNCHANGED <<merge_index, merged_branches, integ_result>>
          ELSE abort_and_raise(branch, failed)
    /\ UNCHANGED <<store_vars, pool_vars, file_vars, run_vars, resume_vars,
                   git_vars>>
    /\ UNCHANGED integ_args
    /\ UNCHANGED <<aux_vars, last_event, events>>

\* lines 76-93 and 163-187: the resolver agent reported success, or it
\* reported an error or raised
IntegResolve ==
    /\ integ_pc = "resolving"
    /\ LET branch == get_branch_name(successful_workers[merge_index].worker_id)
       IN \E resolved \in BOOLEAN :
            IF resolved
            THEN /\ merged_branches' = Append(merged_branches, branch)
                 /\ Log(<<[op |-> "resolved", branch |-> branch]>>)
                 /\ merge_index' = merge_index + 1
                 /\ integ_pc' = after_merge
                 /\ UNCHANGED integ_result
            ELSE abort_and_raise(branch, <<>>)
    /\ UNCHANGED <<store_vars, pool_vars, file_vars, run_vars, resume_vars,
                   git_vars>>
    /\ UNCHANGED integ_args
    /\ UNCHANGED <<aux_vars, last_event, events>>

\* lines 95-99: the build command of the plan, when it has one
IntegBuild ==
    /\ integ_pc = "build"
    /\ \E build_command \in BOOLEAN, ok \in BOOLEAN :
         IF ~build_command
         THEN /\ integ_pc' = "test"
              /\ UNCHANGED <<integ_log, integ_result>>
         ELSE /\ Log(<<[op |-> "build", ok |-> ok]>>)
              /\ IF ok
                 THEN integ_pc' = "test" /\ UNCHANGED integ_result
                 ELSE /\ integ_pc' = "returned"
                      /\ integ_result' =
                           Returned(FALSE, None, "Build failed: <output>")
    /\ UNCHANGED <<store_vars, pool_vars, file_vars, run_vars, resume_vars,
                   git_vars>>
    /\ UNCHANGED <<integ_args, merge_index, merged_branches>>
    /\ UNCHANGED <<aux_vars, last_event, events>>

\* lines 101-106: the test command of the plan, when it has one
IntegTest ==
    /\ integ_pc = "test"
    /\ \E test_command \in BOOLEAN, ok \in BOOLEAN :
         IF ~test_command
         THEN /\ integ_pc' = "review"
              /\ UNCHANGED <<integ_log, integ_result>>
         ELSE /\ Log(<<[op |-> "test", ok |-> ok]>>)
              /\ IF ok
                 THEN integ_pc' = "review" /\ UNCHANGED integ_result
                 ELSE /\ integ_pc' = "returned"
                      /\ integ_result' =
                           Returned(FALSE, None, "Tests failed: <output>")
    /\ UNCHANGED <<store_vars, pool_vars, file_vars, run_vars, resume_vars,
                   git_vars>>
    /\ UNCHANGED <<integ_args, merge_index, merged_branches>>
    /\ UNCHANGED <<aux_vars, last_event, events>>

\* lines 108-110 and 128-129: the optional review agent; when it raises,
\* the except clause turns the exception into a failed result
IntegReview ==
    /\ integ_pc = "review"
    /\ \E ok \in BOOLEAN :
         IF ~integ_args.review
         THEN /\ integ_pc' = "create_pr"
              /\ UNCHANGED <<integ_log, integ_result>>
         ELSE /\ Log(<<[op |-> "review", ok |-> ok]>>)
              /\ IF ok
                 THEN integ_pc' = "create_pr" /\ UNCHANGED integ_result
                 ELSE /\ integ_pc' = "returned"
                      /\ integ_result' =
                           Returned(FALSE, None, "review agent failed")
    /\ UNCHANGED <<store_vars, pool_vars, file_vars, run_vars, resume_vars,
                   git_vars>>
    /\ UNCHANGED <<integ_args, merge_index, merged_branches>>
    /\ UNCHANGED <<aux_vars, last_event, events>>

\* lines 200-240: git push of the integration branch, then gh pr create
push_and_create(outcome) ==
    CASE outcome = "push_failed" -> <<>>
      [] outcome = "pr_failed" ->
           <<[op |-> "push", branch |-> get_branch_name(IntegrationId)]>>
      [] outcome = "ok" ->
           <<[op |-> "push", branch |-> get_branch_name(IntegrationId)],
             [op |-> "pr", branch |-> get_branch_name(IntegrationId)]>>

\* lines 112-129: the PR when the caller asked for one; a failed push or a
\* failed gh call raises inside the try and becomes a failed result
IntegCreatePr ==
    /\ integ_pc = "create_pr"
    /\ integ_pc' = "returned"
    /\ IF ~integ_args.create_pr
       THEN /\ integ_result' = Returned(TRUE, None, None)
            /\ UNCHANGED integ_log
       ELSE \E outcome \in {"ok", "push_failed", "pr_failed"} :
              /\ Log(push_and_create(outcome))
              /\ integ_result' =
                   CASE outcome = "ok" -> Returned(TRUE, "https://pr", None)
                     [] outcome = "push_failed" ->
                          Returned(FALSE, None, "git push failed")
                     [] outcome = "pr_failed" ->
                          Returned(FALSE, None, "Failed to create PR: <error>")
    /\ UNCHANGED <<store_vars, pool_vars, file_vars, run_vars, resume_vars,
                   git_vars>>
    /\ UNCHANGED <<integ_args, merge_index, merged_branches>>
    /\ UNCHANGED <<aux_vars, last_event, events>>

IntegStep ==
    \/ IntegStart
    \/ IntegStartRaises
    \/ IntegMerge
    \/ IntegMergeFails
    \/ IntegResolve
    \/ IntegBuild
    \/ IntegTest
    \/ IntegReview
    \/ IntegCreatePr

\* integrate_results called on the results of an execute phase: every
\* worker of the plan has its branch and its worktree, some succeeded
IntegrateInit ==
    /\ \E n \in 1..MaxTasks :
         /\ \E flags \in [1..n -> BOOLEAN] :
              \E create_pr \in BOOLEAN, review \in BOOLEAN,
                 resolve_conflicts \in BOOLEAN :
                integ_args =
                  [input |-> [i \in 1..n |->
                                IF flags[i]
                                THEN WorkerResult(AllTasks[i], TRUE, 5, None)
                                ELSE WorkerResult(AllTasks[i], FALSE, NoCost,
                                                  "Worker reported error")],
                   create_pr |-> create_pr,
                   review |-> review,
                   resolve_conflicts |-> resolve_conflicts]
         /\ branches = {get_branch_name(AllTasks[i]) : i \in 1..n}
         /\ disk_worktrees = {AllTasks[i] : i \in 1..n}
         /\ mgr_worktrees = {AllTasks[i] : i \in 1..n}
    /\ gc_auto_off = TRUE
    /\ mgr_gc_disabled = TRUE
    /\ coord_dir = TRUE
    /\ integ_pc = "start"
    /\ merge_index = 0
    /\ merged_branches = <<>>
    /\ integ_log = <<>>
    /\ integ_result = [kind |-> "none"]
    /\ config = DefaultConfig
    /\ state_file = NoFile
    /\ serial = SwarmState
    /\ last_op = [op |-> NoOp, before |-> SwarmState]
    /\ ops_done = 0
    /\ status_log = <<>>
    /\ RunIdle
    /\ PoolIdle
    /\ FileIdle
    /\ ResumeIdle
    /\ AuxIdle({})

SpecIntegrate == IntegrateInit /\ [][IntegStep]_vars

\* ------------------------------------- worker.py: spawn_worker_with_retry
\* One call of the Worker Runner.  Each attempt awaits the agent, which
\* returns a successful result, returns a failed result, or raises; the
\* code after the await up to the next attempt runs without suspension.

\* line 114: range(1, max_retries + 1)
attempt_range_one_more(max_retries) == 1..(max_retries + 1)

attempt_range(max_retries) == 1..max_retries

\* lines 115-118: the model of an attempt, given the previous result
current_model_escalates_at_once(attempt, last_result) ==
    IF retry_cfg.enable_escalation THEN "escalation" ELSE "base"

current_model(attempt, last_result) ==
    IF /\ attempt > 1
       /\ retry_cfg.enable_escalation
       /\ last_result # NoResult
       /\ ~last_result.success
    THEN "escalation"
    ELSE "base"

RetryAttempt_retries_raise ==
    /\ retry_pc = "running"
    /\ LET attempt == Len(attempts) + 1
           model == current_model(attempt, retry_result)
       IN /\ attempt \in attempt_range(retry_cfg.max_retries)
          /\ \E outcome \in {"success", "failure", "raise"},
                cost \in {NoCost, 5} :
               /\ attempts' = Append(attempts,
                                     [model |-> model, outcome |-> outcome])
               /\ IF outcome = "raise"
                  THEN /\ cost = NoCost
                       /\ retry_pc' =
                            IF attempt + 1 \notin
                                 attempt_range(retry_cfg.max_retries)
                            THEN "raised" ELSE "running"
                       /\ UNCHANGED retry_result
                  ELSE /\ retry_result' =
                            [worker_id |-> "w1",
                             success |-> (outcome = "success"),
                             cost_usd |-> cost,
                             error |-> IF outcome = "success" THEN None
                                       ELSE "Worker reported error",
                             attempt |-> attempt,
                             model_used |-> model]
                       /\ retry_pc' =
                            IF \/ outcome = "success"
                               \/ attempt + 1 \notin
                                    attempt_range(retry_cfg.max_retries)
                            THEN "returned" ELSE "running"
    /\ UNCHANGED <<store_vars, pool_vars, file_vars, run_vars, git_vars,
                   integ_vars, resume_vars, retry_cfg, cleanup_pc,
                   cleanup_log, agent_tasks, issue, git_call,
                   last_event, events>>

\* lines 114-140 and 68-92: one pass of the loop.  _spawn_single_attempt
\* returns a result or raises WorkerError; the result gets attempt and
\* model_used; success returns it, failure goes to the next attempt or,
\* after the last one, returns the last failed result.
RetryAttempt ==
    /\ retry_pc = "running"
    /\ LET attempt == Len(attempts) + 1
           model == current_model(attempt, retry_result)
       IN /\ attempt \in attempt_range(retry_cfg.max_retries)
          /\ \E outcome \in {"success", "failure", "raise"},
                cost \in {NoCost, 5} :
               /\ attempts' = Append(attempts,
                                     [model |-> model, outcome |-> outcome])
               /\ IF outcome = "raise"
                  THEN /\ cost = NoCost
                       /\ retry_pc' = "raised"
                       /\ UNCHANGED retry_result
                  ELSE /\ retry_result' =
                            [worker_id |-> "w1",
                             success |-> (outcome = "success"),
                             cost_usd |-> cost,
                             error |-> IF outcome = "success" THEN None
                                       ELSE "Worker reported error",
                             attempt |-> attempt,
                             model_used |-> model]
                       /\ retry_pc' =
                            IF \/ outcome = "success"
                               \/ attempt + 1 \notin
                                    attempt_range(retry_cfg.max_retries)
                            THEN "returned" ELSE "running"
    /\ UNCHANGED <<store_vars, pool_vars, file_vars, run_vars, git_vars,
                   integ_vars, resume_vars, retry_cfg, cleanup_pc,
                   cleanup_log, agent_tasks, issue, git_call,
                   last_event, events>>

\* nothing but the parts named in started has begun: no run, no pool, no
\* file access, an untouched repository, no integration and no resume
OnlyAux(started) ==
    /\ AuxIdle(started)
    /\ config = DefaultConfig
    /\ state_file = NoFile
    /\ serial = SwarmState
    /\ last_op = [op |-> NoOp, before |-> SwarmState]
    /\ ops_done = 0
    /\ status_log = <<>>
    /\ RunIdle
    /\ PoolIdle
    /\ FileIdle
    /\ branches = {}
    /\ disk_worktrees = {}
    /\ mgr_worktrees = {}
    /\ gc_auto_off = FALSE
    /\ mgr_gc_disabled = FALSE
    /\ coord_dir = FALSE
    /\ IntegIdle
    /\ ResumeIdle

RetryInit ==
    /\ retry_cfg \in [max_retries : 1..MaxRetries, enable_escalation : BOOLEAN]
    /\ retry_pc = "running"
    /\ attempts = <<>>
    /\ retry_result = NoResult
    /\ OnlyAux({"retry"})

SpecRetry == RetryInit /\ [][RetryAttempt]_vars

\* ------------------------------------------- issue_processor.py: IssueProcessor
\* The issue of one IssueProcessor: its labels, whether it is open, the
\* comments posted on it, and what Orchestrator.run did.  Every gh call
\* either succeeds or raises GitHubError (github.py 16-28).
TriggerLabel == "swarm"

\* orchestrator.py 83-252: run() raises, or returns a SwarmResult after a
\* run that succeeded, whose integration did not succeed, or in which no
\* worker succeeded
RunOutcomes == {"raised", "succeeded", "integration_failed",
                "no_worker_succeeded"}

\* one step of the driver: what run() did, the next position, the issue's labels and
\* whether it is open afterwards, and the comment posted, if any
IssueStep(run, pc, labels, open, comment) ==
    /\ issue' = [issue EXCEPT !.run = run, !.pc = pc, !.labels = labels, !.open = open,
                              !.comments = IF comment = None THEN @
                                           ELSE Append(@, comment)]
    /\ UNCHANGED <<store_vars, pool_vars, file_vars, run_vars, git_vars,
                   integ_vars, resume_vars, retry_pc, retry_cfg, attempts,
                   retry_result, cleanup_pc, cleanup_log, agent_tasks,
                   git_call, last_event, events>>

\* lines 121-142: claim swaps the trigger label for swarm:active; a
\* GitHubError makes process return
claim ==
    /\ \E ok \in BOOLEAN :
         \/ /\ issue.pc = "claim_remove"
            /\ IF ok THEN IssueStep(issue.run, "claim_add", issue.labels \ {TriggerLabel},
                                    issue.open, None)
               ELSE IssueStep(issue.run, "end", issue.labels, issue.open, None)
         \/ /\ issue.pc = "claim_add"
            /\ IF ok THEN IssueStep(issue.run, "run_swarm",
                                    issue.labels \cup {"swarm:active"},
                                    issue.open, None)
               ELSE IssueStep(issue.run, "end", issue.labels, issue.open, None)

\* lines 159-176: _run_swarm posts the start comment (a GitHubError is
\* logged) and awaits orchestrator.run(); lines 152-158: an exception goes
\* to _mark_failed, a result to _post_result_comment
run_swarm ==
    /\ issue.pc = "run_swarm"
    /\ \E ok \in BOOLEAN, outcome \in RunOutcomes :
         IssueStep(outcome,
                   IF outcome = "raised" THEN "failed_comment"
                   ELSE "result_comment",
                   issue.labels, issue.open, IF ok THEN "started" ELSE None)

\* lines 178-203: the result comment; a GitHubError is logged
post_result_comment ==
    /\ issue.pc = "result_comment"
    /\ \E ok \in BOOLEAN :
         IssueStep(issue.run, "done_remove", issue.labels, issue.open,
                   IF ok THEN "result" ELSE None)

\* lines 205-222: remove swarm:active, add swarm:done, close the issue; the
\* first GitHubError ends the sequence and is logged
mark_done ==
    /\ \E ok \in BOOLEAN :
         \/ /\ issue.pc = "done_remove"
            /\ IF ok THEN IssueStep(issue.run, "done_add", issue.labels \ {"swarm:active"},
                                    issue.open, None)
               ELSE IssueStep(issue.run, "end", issue.labels, issue.open, None)
         \/ /\ issue.pc = "done_add"
            /\ IF ok THEN IssueStep(issue.run, "done_close",
                                    issue.labels \cup {"swarm:done"},
                                    issue.open, None)
               ELSE IssueStep(issue.run, "end", issue.labels, issue.open, None)
         \/ /\ issue.pc = "done_close"
            /\ IssueStep(issue.run, "end", issue.labels, IF ok THEN FALSE ELSE issue.open,
                         None)

\* lines 224-244: post the error comment (a GitHubError is logged), then
\* remove swarm:active and add swarm:failed; the issue is not closed
mark_failed ==
    /\ \E ok \in BOOLEAN :
         \/ /\ issue.pc = "failed_comment"
            /\ IssueStep(issue.run, "failed_remove", issue.labels, issue.open,
                         IF ok THEN "error" ELSE None)
         \/ /\ issue.pc = "failed_remove"
            /\ IF ok THEN IssueStep(issue.run, "failed_add",
                                    issue.labels \ {"swarm:active"},
                                    issue.open, None)
               ELSE IssueStep(issue.run, "end", issue.labels, issue.open, None)
         \/ /\ issue.pc = "failed_add"
            /\ IssueStep(issue.run, "end",
                         IF ok THEN issue.labels \cup {"swarm:failed"}
                         ELSE issue.labels,
                         issue.open, None)

\* lines 145-147: process() of an open issue that carries the trigger label
\* and possibly labels of its own
IssueInit ==
    /\ \E others \in SUBSET {"bug", "help wanted"} :
         issue = [pc |-> "claim_remove", run |-> None,
                  labels |-> {TriggerLabel} \cup others, open |-> TRUE,
                  comments |-> <<>>]
    /\ OnlyAux({"issue"})

IssueNext ==
    \/ claim
    \/ run_swarm
    \/ post_result_comment
    \/ mark_done
    \/ mark_failed

SpecIssue == IssueInit /\ [][IssueNext]_vars

\* ------------------------------------------------------ worktree.py: _run_git
\* The texts git may write to stderr, as sequences of characters: nothing,
\* a lock message in three spellings, and two messages without "lock".
StderrTexts ==
    {<<>>,
     <<"l", "o", "c", "k">>,
     <<"L", "o", "c", "k">>,
     <<"a", " ", "L", "O", "C", "K">>,
     <<"l", "o", "k">>,
     <<"L", "O", "G">>}

\* str.lower on the characters that occur
lower_unchanged(text) == text

lower(text) ==
    [i \in DOMAIN text |->
       CASE text[i] = "L" -> "l"
         [] text[i] = "O" -> "o"
         [] text[i] = "C" -> "c"
         [] text[i] = "K" -> "k"
         [] text[i] = "G" -> "g"
         [] OTHER -> text[i]]

\* line 40: "lock" in err.lower()
lock_in(err) ==
    LET low == lower(err)
        word == <<"l", "o", "c", "k">>
    IN \E i \in 1..(Len(low) - 3) : SubSeq(low, i, i + 3) = word

\* lines 50-53: every attempt hit lock contention, or there was none
after_loop(retries, check) ==
    IF check
    THEN [kind |-> "raised", error |-> "failed after retries", n |-> retries]
    ELSE [kind |-> "returned", out |-> ""]

\* lines 26-53: one pass of the loop, with what follows the loop when the
\* pass was the last; range(retries) is empty for retries = 0
run_git ==
    /\ git_call.pc = "running"
    /\ LET attempt == Len(git_call.runs)
       IN IF attempt >= git_call.retries
          THEN git_call' = [git_call EXCEPT
                              !.pc = "done",
                              !.result = after_loop(git_call.retries,
                                                    git_call.check)]
          ELSE \E returncode \in {0, 1, 128}, out \in {"", "main"},
                  err \in StderrTexts :
                 LET run == [returncode |-> returncode, out |-> out,
                             err |-> err]
                     runs == Append(git_call.runs, run)
                 IN CASE returncode = 0 ->
                           git_call' = [git_call EXCEPT
                              !.pc = "done", !.runs = runs,
                              !.result = [kind |-> "returned", out |-> out]]
                      [] returncode # 0 /\ lock_in(err) ->
                           IF attempt < git_call.retries - 1
                           THEN git_call' = [git_call EXCEPT !.runs = runs]
                           ELSE git_call' = [git_call EXCEPT
                                  !.pc = "done", !.runs = runs,
                                  !.result = after_loop(git_call.retries,
                                                        git_call.check)]
                      [] OTHER ->
                           git_call' = [git_call EXCEPT
                              !.pc = "done", !.runs = runs,
                              !.result =
                                 IF git_call.check
                                 THEN [kind |-> "raised", error |-> "failed",
                                       err |-> err]
                                 ELSE [kind |-> "returned", out |-> out]]
    /\ UNCHANGED <<store_vars, pool_vars, file_vars, run_vars, git_vars,
                   integ_vars, resume_vars, retry_pc, retry_cfg, attempts,
                   retry_result, cleanup_pc, cleanup_log, agent_tasks, issue,
                   last_event, events>>

\* lines 17-25: a call with any retries up to the bound and either check
GitInit ==
    /\ \E retries \in 0..MaxGitRetries, check \in BOOLEAN :
         git_call = [pc |-> "running", retries |-> retries, check |-> check,
                     runs |-> <<>>, result |-> None]
    /\ OnlyAux({"git"})

SpecGit == GitInit /\ [][run_git]_vars


\* ------------------------------------------- orchestrator.py: Orchestrator.run
\* The pipeline of one run: start_run, the Planner, the checkpoints, the worker
\* pool above, the Integrator, the final status, and the CLI wrapper that
\* awaits run().  The Planner, the Integrator and PR creation are external
\* agents; each of their calls returns or raises, and the choice is free.

IntegrationFailed == "Integration failed"

\* line 119: successful = [r for r in worker_results if r.success]
successful == {i \in DOMAIN final_results : final_results[i].success}

\* the three call sites of _checkpoint: where run() stands before the call,
\* while the prompt is open, after approval and after a refusal
\* (lines 100, 130 and 183), and the resume_status each call passes
checkpoint_site(k) ==
    CASE k = 1 -> [at |-> "checkpoint1", prompt |-> "prompt1",
                   approved |-> "execute", declined |-> "declined1",
                   resume_status |-> "executing"]
      [] k = 2 -> [at |-> "checkpoint2", prompt |-> "prompt2",
                   approved |-> "integrate", declined |-> "declined2",
                   resume_status |-> "integrating"]
      [] k = 3 -> [at |-> "checkpoint3", prompt |-> "prompt3",
                   approved |-> "create_pr", declined |-> "summary",
                   resume_status |-> "integrating"]

\* line 76
RunStartRun ==
    /\ run_pc = "idle"
    /\ Store(start_run(load, RID), start_run(serial, RID))
    /\ run_pc' = "planning"
    /\ record(<<[event |-> "plan_start"]>>)
    /\ UNCHANGED <<last_op, ops_done, pool_vars, file_vars, git_vars, integ_vars,
                   resume_vars, aux_vars, run_error,
                   integration_success, run_pr_url>>

\* lines 301-303: a plan longer than max_workers is cut to its first
\* max_workers tasks
truncated_keeps_last(tasks, max_workers) ==
    IF Len(tasks) > max_workers
    THEN SubSeq(tasks, Len(tasks) - max_workers + 1, Len(tasks))
    ELSE tasks

truncated(tasks, max_workers) ==
    IF Len(tasks) > max_workers THEN SubSeq(tasks, 1, max_workers) ELSE tasks

\* lines 79-88 and 285-306: the planning agent's output validated as a
\* TaskPlan of k tasks (a list of any length, the empty one included),
\* _plan_task cut it to max_workers, and set_run_plan stored it
PlanTaskReturns ==
    /\ run_pc = "planning"
    /\ \E k \in 0..MaxTasks :
         LET tasks == truncated(SubSeq(AllTasks, 1, k), config.max_workers)
         IN /\ agent_tasks' = SubSeq(AllTasks, 1, k)
            /\ plan_tasks' = tasks
            /\ Store(set_run_plan(load, RID, tasks),
                     set_run_plan(serial, RID, tasks))
    /\ record(<<[event |-> "plan_complete"]>>)
    /\ run_pc' = IF config.dry_run THEN "dry_run" ELSE "checkpoint1"
    /\ UNCHANGED <<last_op, ops_done, file_vars, git_vars, integ_vars,
                   resume_vars, retry_pc, retry_cfg, attempts, retry_result,
                   cleanup_pc, cleanup_log, issue, git_call, run_error,
                   integration_success,
                   run_pr_url>>
    /\ UNCHANGED <<config, exec_pc, created, slot_pc, sem_value, running_cost,
                   cost_exceeded, runner_result, slot_result, final_results,
                   executed, finished_before, entry_flag, caught>>

\* lines 285-299: the agent reported an error, gave no output, or gave text
\* that is not a valid plan; PlanningError leaves _plan_task and, as run()
\* has no handler around line 79, leaves run()
PlanTaskRaises ==
    /\ run_pc = "planning"
    /\ run_pc' = "raised"
    /\ run_error' = "PlanningError"
    /\ UNCHANGED <<store_vars, pool_vars, file_vars, env_vars, integration_success,
                   run_pr_url>>

\* lines 88-98
DryRun_continues ==
    /\ run_pc = "dry_run"
    /\ run_pc' = "checkpoint1"
    /\ UNCHANGED <<store_vars, pool_vars, file_vars, env_vars, run_error,
                   integration_success, run_pr_url>>

DryRun ==
    /\ run_pc = "dry_run"
    /\ Store(complete_run(load, RID, None), complete_run(serial, RID, None))
    /\ run_pc' = "returned"
    /\ UNCHANGED <<last_op, ops_done, pool_vars, file_vars, env_vars, run_error,
                   integration_success, run_pr_url>>

\* lines 52-60: _checkpoint returns True at once outside checkpoint mode,
\* and otherwise persists paused_checkpoint and opens the prompt
Checkpoint(k) ==
    /\ run_pc = checkpoint_site(k).at
    /\ IF config.oversight # "checkpoint"
       THEN /\ run_pc' = checkpoint_site(k).approved
            /\ UNCHANGED store_vars
       ELSE /\ Store(set_run_status(load, RID, "paused_checkpoint"),
                     set_run_status(serial, RID, "paused_checkpoint"))
            /\ run_pc' = checkpoint_site(k).prompt
            /\ UNCHANGED <<last_op, ops_done>>
    /\ UNCHANGED <<pool_vars, file_vars, env_vars, run_error, integration_success,
                   run_pr_url>>

\* lines 61-63
Approve(k) ==
    /\ run_pc = checkpoint_site(k).prompt
    /\ Store(set_run_status(load, RID, checkpoint_site(k).resume_status),
             set_run_status(serial, RID, checkpoint_site(k).resume_status))
    /\ run_pc' = checkpoint_site(k).approved
    /\ UNCHANGED <<last_op, ops_done, pool_vars, file_vars, env_vars, run_error,
                   integration_success, run_pr_url>>

\* lines 64-66
Decline(k) ==
    /\ run_pc = checkpoint_site(k).prompt
    /\ Store(set_run_status(load, RID, "interrupted"),
             set_run_status(serial, RID, "interrupted"))
    /\ run_pc' = checkpoint_site(k).declined
    /\ UNCHANGED <<last_op, ops_done, pool_vars, file_vars, env_vars, run_error,
                   integration_success, run_pr_url>>

\* lines 102-112: checkpoint 1 was refused
DeclinedExecute ==
    /\ run_pc = "declined1"
    /\ Store(complete_run(load, RID, None), complete_run(serial, RID, None))
    /\ run_pc' = "returned"
    /\ UNCHANGED <<last_op, ops_done, pool_vars, file_vars, env_vars, run_error,
                   integration_success, run_pr_url>>

\* lines 115-116: status executing, then _execute_workers is entered
ExecuteWorkers ==
    /\ run_pc = "execute"
    /\ Store(set_run_status(load, RID, "executing"),
             set_run_status(serial, RID, "executing"))
    /\ run_pc' = "executing"
    /\ exec_pc' = "setup"
    /\ UNCHANGED <<last_op, ops_done, file_vars, env_vars, run_error,
                   integration_success, run_pr_url>>
    /\ UNCHANGED <<config, plan_tasks, created, slot_pc, sem_value,
                   running_cost, cost_exceeded, runner_result, slot_result,
                   final_results, executed, finished_before, entry_flag, caught>>

\* lines 116-130: _execute_workers returned its results
WorkersReturn ==
    /\ run_pc = "executing"
    /\ exec_pc = "returned"
    /\ run_pc' = IF successful = {} THEN "summary" ELSE "checkpoint2"
    /\ LocalsDropped
    /\ UNCHANGED <<store_vars, file_vars, env_vars, run_error,
                   integration_success, run_pr_url>>
    /\ UNCHANGED <<config, plan_tasks, exec_pc, created, final_results>>

\* line 116: WorktreeError left _execute_workers and so leaves run()
WorkersRaise ==
    /\ run_pc = "executing"
    /\ exec_pc = "raised"
    /\ run_pc' = "raised"
    /\ run_error' = "WorktreeError"
    /\ UNCHANGED <<store_vars, pool_vars, file_vars, env_vars, integration_success,
                   run_pr_url>>

\* lines 135-147: checkpoint 2 was refused; the worktrees are removed and
\* run() returns
DeclinedIntegrate ==
    /\ run_pc = "declined2"
    /\ run_pc' = "returned"
    /\ cleanup_all(FALSE)
    /\ UNCHANGED <<store_vars, pool_vars, file_vars, integ_vars, resume_vars,
                   coord_dir, run_error, integration_success, run_pr_url>>
    /\ UNCHANGED <<aux_vars, last_event, events>>

\* lines 149-152
Integrate ==
    /\ run_pc = "integrate"
    /\ Store(set_run_status(load, RID, "integrating"),
             set_run_status(serial, RID, "integrating"))
    /\ run_pc' = "integrating"
    /\ record(<<[event |-> "integration_start"]>>)
    /\ UNCHANGED <<last_op, ops_done, pool_vars, file_vars, git_vars, integ_vars,
                   resume_vars, aux_vars, run_error,
                   integration_success, run_pr_url>>

\* lines 155-156
create_pr_now(should_create_pr, oversight) ==
    should_create_pr /\ oversight # "checkpoint"

\* lines 152-173: the base branch is read and integrate_results is called;
\* a PR is asked of it only outside checkpoint mode
IntegrateCall ==
    /\ run_pc = "integrating"
    /\ integ_pc = "idle"
    /\ integ_pc' = "start"
    /\ \E resolve_conflicts \in BOOLEAN, review \in BOOLEAN :
         integ_args' =
           [input |-> final_results,
            create_pr |-> create_pr_now(config.create_pr, config.oversight),
            review |-> review,
            resolve_conflicts |-> resolve_conflicts]
    /\ UNCHANGED <<store_vars, pool_vars, file_vars, run_vars, git_vars,
                   resume_vars>>
    /\ UNCHANGED <<merge_index, merged_branches, integ_log, integ_result>>
    /\ UNCHANGED <<aux_vars, last_event, events>>

\* lines 159-219: integrate_results returned (success, pr_url, error_msg)
IntegrateReturns ==
    /\ run_pc = "integrating"
    /\ integ_pc = "returned"
    /\ integ_pc' = "done"
    /\ integration_success' = integ_result.success
    /\ run_pr_url' = integ_result.pr_url
    /\ run_pc' = IF integ_result.success /\ config.create_pr
                    /\ config.oversight = "checkpoint"
                 THEN "checkpoint3"
                 ELSE IF integ_result.success /\ integ_result.pr_url # None
                         /\ config.oversight = "autonomous"
                 THEN "auto_merge" ELSE "summary"
    /\ UNCHANGED <<store_vars, pool_vars, file_vars, run_error, git_vars,
                   resume_vars>>
    /\ UNCHANGED <<integ_args, merge_index, merged_branches, integ_log,
                   integ_result>>
    /\ record(<<[event |-> "merge_result", success |-> integ_result.success]>>
              \o IF integ_result.success /\ integ_result.pr_url # None
                 THEN <<[event |-> "pr_created"]>> ELSE <<>>)
    /\ UNCHANGED aux_vars

\* auto_merge_pr as the specification describes it (the function is not in
\* src/integrator.py): one GitHub CLI call, pr merge <url> --auto --squash;
\* a non-zero exit returns false and no direct merge is tried
auto_merge_pr_with_fallback(ok) ==
    IF ok THEN <<[op |-> "pr_merge_auto", ok |-> TRUE]>>
    ELSE <<[op |-> "pr_merge_auto", ok |-> FALSE],
           [op |-> "pr_merge", ok |-> TRUE]>>

auto_merge_pr(ok) == <<[op |-> "pr_merge_auto", ok |-> ok]>>

\* lines 203-210: autonomous mode with a PR URL: auto-merge is tried and its
\* result is only printed
AutoMerge ==
    /\ run_pc = "auto_merge"
    /\ run_pc' = "summary"
    /\ \E ok \in BOOLEAN : Log(auto_merge_pr(ok))
    /\ UNCHANGED <<store_vars, pool_vars, file_vars, run_error,
                   integration_success, run_pr_url, git_vars, resume_vars>>
    /\ UNCHANGED <<integ_pc, integ_args, merge_index, merged_branches,
                   integ_result>>
    /\ UNCHANGED <<aux_vars, last_event, events>>

\* lines 221-224: a SwarmError that integrate_results raised is caught
IntegrateRaisesSwarmError ==
    /\ run_pc = "integrating"
    /\ integ_pc = "raised"
    /\ integ_pc' = "done"
    /\ integration_success' = FALSE
    /\ run_pc' = "summary"
    /\ run_error' = integ_result.error
    /\ UNCHANGED <<store_vars, pool_vars, file_vars, run_pr_url, git_vars,
                   resume_vars>>
    /\ UNCHANGED <<integ_args, merge_index, merged_branches, integ_log,
                   integ_result>>
    /\ record(<<[event |-> "merge_result", success |-> FALSE]>>)
    /\ UNCHANGED aux_vars

\* line 152 is outside the try: a WorktreeError of get_base_branch leaves
\* run()
IntegrateRaises ==
    /\ run_pc = "integrating"
    /\ integ_pc = "idle"
    /\ run_pc' = "raised"
    /\ run_error' = "WorktreeError"
    /\ UNCHANGED <<store_vars, pool_vars, file_vars, env_vars,
                   integration_success, run_pr_url>>

\* lines 184-197: checkpoint 3 was approved: the branch is pushed and the
\* PR is opened
CreatePrReturns ==
    /\ run_pc = "create_pr"
    /\ run_pr_url' = "https://pr"
    /\ run_pc' = "summary"
    /\ Log(push_and_create("ok"))
    /\ UNCHANGED <<store_vars, pool_vars, file_vars, run_error,
                   integration_success, git_vars, resume_vars>>
    /\ UNCHANGED <<integ_pc, integ_args, merge_index, merged_branches,
                   integ_result>>
    /\ record(<<[event |-> "pr_created"]>>)
    /\ UNCHANGED aux_vars

\* lines 187-188 and 221-224: the push or the gh call failed after the
\* approval; the SwarmError is caught
CreatePrRaisesSwarmError ==
    /\ run_pc = "create_pr"
    /\ integration_success' = FALSE
    /\ run_pc' = "summary"
    /\ \E outcome \in {"push_failed", "pr_failed"} :
         /\ Log(push_and_create(outcome))
         /\ run_error' = IF outcome = "push_failed" THEN "WorktreeError"
                         ELSE "IntegrationError"
    /\ UNCHANGED <<store_vars, pool_vars, file_vars, run_pr_url, git_vars,
                   resume_vars>>
    /\ UNCHANGED <<integ_pc, integ_args, merge_index, merged_branches,
                   integ_result>>
    /\ record(<<[event |-> "merge_result", success |-> FALSE]>>)
    /\ UNCHANGED aux_vars

Summary_fails_without_success ==
    /\ run_pc = "summary"
    /\ IF integration_success
       THEN Store(complete_run(load, RID, run_pr_url),
                  complete_run(serial, RID, run_pr_url))
       ELSE Store(fail_run(load, RID, IntegrationFailed),
                  fail_run(serial, RID, IntegrationFailed))
    /\ run_pc' = "cleanup"
    /\ UNCHANGED <<last_op, ops_done, pool_vars, file_vars, env_vars, run_error,
                   integration_success, run_pr_url>>

\* lines 235-238: the final status
Summary ==
    /\ run_pc = "summary"
    /\ IF integration_success \/ successful = {}
       THEN Store(complete_run(load, RID, run_pr_url),
                  complete_run(serial, RID, run_pr_url))
       ELSE Store(fail_run(load, RID, IntegrationFailed),
                  fail_run(serial, RID, IntegrationFailed))
    /\ run_pc' = "cleanup"
    /\ UNCHANGED <<last_op, ops_done, pool_vars, file_vars, env_vars, run_error,
                   integration_success, run_pr_url>>

\* lines 241-253: the worktrees and the coordination directory are removed
Cleanup ==
    /\ run_pc = "cleanup"
    /\ run_pc' = "returned"
    /\ cleanup_all(FALSE)
    /\ coord_dir' = FALSE
    /\ UNCHANGED <<store_vars, pool_vars, file_vars, integ_vars, resume_vars,
                   run_error, integration_success, run_pr_url>>
    /\ UNCHANGED <<aux_vars, last_event, events>>

\* cli.py 87-97: _main awaits run() and handles KeyboardInterrupt and
\* CancelledError only; a result is printed, any other exception ends the
\* process with the state file as run() left it
CliMain ==
    /\ run_pc \in {"returned", "raised"}
    /\ run_pc' = "exited"
    /\ UNCHANGED <<store_vars, pool_vars, file_vars, env_vars, run_error,
                   integration_success, run_pr_url>>

RunInit ==
    /\ config \in [max_workers : 1..MaxWorkersCfg, max_cost : {5},
                    oversight : {"autonomous", "pr-gated", "checkpoint"},
                    dry_run : BOOLEAN, create_pr : BOOLEAN]
    \* cli.py 62-63: autonomous oversight without PR creation is rejected
    /\ config.oversight = "autonomous" => config.create_pr
    /\ state_file = NoFile
    /\ serial = SwarmState
    /\ last_op = [op |-> NoOp, before |-> SwarmState]
    /\ ops_done = 0
    /\ status_log = <<>>
    /\ RunIdle
    /\ PoolIdle
    /\ FileIdle
    /\ EnvIdle

RunNext ==
    \/ RunStartRun
    \/ PlanTaskReturns
    \/ PlanTaskRaises
    \/ DryRun
    \/ \E k \in 1..3 : Checkpoint(k)
    \/ \E k \in 1..3 : Approve(k)
    \/ \E k \in 1..3 : Decline(k)
    \/ DeclinedExecute
    \/ ExecuteWorkers
    \/ PoolStep
    \/ WorkersReturn
    \/ WorkersRaise
    \/ DeclinedIntegrate
    \/ Integrate
    \/ IntegrateCall
    \/ IntegStep
    \/ IntegrateReturns
    \/ AutoMerge
    \/ IntegrateRaisesSwarmError
    \/ IntegrateRaises
    \/ CreatePrReturns
    \/ CreatePrRaisesSwarmError
    \/ Summary
    \/ Cleanup
    \/ CliMain

SpecRun == RunInit /\ [][RunNext]_vars

\* ------------------------------------------------------------ run claims

C9_ForwardToTerminal ==
    LET phase(status) ==
            CASE status = "planning" -> 1
              [] status = "executing" -> 2
              [] status = "integrating" -> 3
              [] status \in {"completed", "failed"} -> 4
              [] OTHER -> 0
    IN config.oversight # "checkpoint" =>
         /\ \A i \in 1..Len(status_log) : phase(status_log[i]) > 0
         /\ \A i \in 1..(Len(status_log) - 1) :
              phase(status_log[i]) < phase(status_log[i + 1])
         /\ run_pc \in {"returned", "raised", "exited"} =>
              /\ RID \in DOMAIN load.runs
              /\ load.runs[RID].status \in {"completed", "failed"}

\* C10: once PlanningError has left the Planner, the persisted status of the
\* run is failed.
C10_PlanningErrorFailsRun ==
    run_error = "PlanningError" =>
        /\ RID \in DOMAIN load.runs
        /\ load.runs[RID].status = "failed"

\* ---------------------------------------------------- cli.py: resume
\* The resume command run by a new process on the state file and the
\* repository that an earlier process of run r1 left behind.

\* the document of the earlier process: the plan, the workers registered so
\* far with their statuses, and the run status of the way it ended
PriorDoc(tasks, registered, statuses, end) ==
    LET PriorWorker(status) ==
          CASE status = "pending" -> WorkerState(Now)
            [] status = "running" ->
                 [WorkerState(Now) EXCEPT !.status = "running"]
            [] status = "completed" ->
                 [WorkerState(Now) EXCEPT !.status = "completed",
                                          !.cost_usd = 5,
                                          !.completed_at = Now]
            [] status = "failed" ->
                 [WorkerState(Now) EXCEPT !.status = "failed",
                                          !.error = "Worker reported error",
                                          !.completed_at = Now]
        planned == set_run_plan(start_run(SwarmState, RID).state, RID,
                                tasks).state
        run == [planned.runs[RID] EXCEPT
                  !.workers = [w \in registered |-> PriorWorker(statuses[w])],
                  !.status = CASE end = "interrupted" -> "interrupted"
                               [] end = "failed" -> "failed"
                               [] end = "killed" -> "executing",
                  !.error = IF end = "failed" THEN IntegrationFailed ELSE None]
    IN [planned EXCEPT !.runs = [r \in {RID} |-> run],
                       !.active_run = IF end = "failed" THEN None ELSE RID]

\* run.workers.values(): a dict keeps the order in which its keys were first
\* inserted, and the execute phase registers workers in plan order
workers_values(run) ==
    SelectSeq(run.plan.tasks, LAMBDA t : t \in DOMAIN run.workers)

\* cli.py 363-366
resumable_with_running(run) ==
    SelectSeq(workers_values(run),
              LAMBDA t : run.workers[t].status \in {"pending", "failed", "running"})

resumable(run) ==
    SelectSeq(workers_values(run),
              LAMBDA t : run.workers[t].status \in {"pending", "failed"})

\* cli.py 372-375
completed(run) ==
    SelectSeq(workers_values(run),
              LAMBDA t : run.workers[t].status = "completed")

\* cli.py 405-406
resume_tasks(run) ==
    SelectSeq(run.plan.tasks,
              LAMBDA t : \E i \in 1..Len(resumable(run)) : resumable(run)[i] = t)

\* cli.py 354-370: what resume requires of the run
can_resume(run) ==
    /\ run.status \in {"interrupted", "failed", "executing", "paused_checkpoint"}
    /\ run.plan.set
    /\ resumable(run) # <<>>

\* cli.py 342-420: the run is found, the workers to re-execute are chosen,
\* a new Orchestrator (with a new WorktreeManager) is built and the run is
\* set to executing; _main then enters _execute_workers
ResumeSelect ==
    /\ resume_pc = "start"
    /\ can_resume(load.runs[RID])
    /\ resume_selected' = resume_tasks(load.runs[RID])
    /\ resume_completed' = completed(load.runs[RID])
    /\ plan_tasks' = resume_tasks(load.runs[RID])
    /\ exec_pc' = "setup"
    /\ resume_pc' = "executing"
    /\ Store(set_run_status(load, RID, "executing"),
             set_run_status(serial, RID, "executing"))
    /\ last_op' = [op |-> [name |-> "set_run_status", run_id |-> RID,
                           status |-> "executing"],
                   before |-> load]
    /\ UNCHANGED <<ops_done, file_vars, run_vars, git_vars, integ_vars>>
    /\ UNCHANGED <<config, created, slot_pc, sem_value, running_cost,
                   cost_exceeded, runner_result, slot_result, final_results,
                   executed, finished_before, entry_flag, caught>>
    /\ UNCHANGED <<aux_vars, last_event, events>>

\* cli.py 354-370: nothing to resume
ResumeRefuses ==
    /\ resume_pc = "start"
    /\ ~can_resume(load.runs[RID])
    /\ resume_pc' = "exited"
    /\ UNCHANGED <<store_vars, pool_vars, file_vars, run_vars, git_vars,
                   integ_vars, resume_completed, resume_selected>>
    /\ UNCHANGED <<aux_vars, last_event, events>>

\* cli.py 425-426
ResumeWorkersReturn ==
    /\ resume_pc = "executing"
    /\ exec_pc = "returned"
    /\ resume_pc' = "combining"
    /\ Store(set_run_status(load, RID, "integrating"),
             set_run_status(serial, RID, "integrating"))
    /\ LocalsDropped
    /\ UNCHANGED <<last_op, ops_done, file_vars, run_vars, git_vars,
                   integ_vars, resume_completed, resume_selected>>
    /\ UNCHANGED <<config, plan_tasks, exec_pc, created, final_results>>
    /\ UNCHANGED <<aux_vars, last_event, events>>

\* cli.py 422-425 and 474: _main handles KeyboardInterrupt and
\* CancelledError only; a WorktreeError of _execute_workers ends the command
ResumeWorkersRaise ==
    /\ resume_pc = "executing"
    /\ exec_pc = "raised"
    /\ resume_pc' = "raised"
    /\ UNCHANGED <<store_vars, pool_vars, file_vars, run_vars, git_vars,
                   integ_vars, resume_completed, resume_selected>>
    /\ UNCHANGED <<aux_vars, last_event, events>>

\* cli.py 429-441: the completed workers first, then the fresh results
all_results ==
    [i \in 1..Len(resume_completed) |->
        WorkerResult(resume_completed[i], TRUE, 5, None)] \o final_results

\* cli.py 443-460 and 468-470: integrate_results is called with all results
\* and should_create_pr=True (line 454), or the run is failed when no worker
\* succeeded
ResumeCombine ==
    /\ resume_pc = "combining"
    /\ IF \E i \in 1..Len(all_results) : all_results[i].success
       THEN /\ integ_pc' = "start"
            /\ \E resolve_conflicts \in BOOLEAN :
                 integ_args' = [input |-> all_results,
                                create_pr |-> TRUE,
                                review |-> FALSE,
                                resolve_conflicts |-> resolve_conflicts]
            /\ resume_pc' = "integrating"
            /\ UNCHANGED store_vars
       ELSE /\ Store(fail_run(load, RID, "No workers succeeded"),
                     fail_run(serial, RID, "No workers succeeded"))
            /\ resume_pc' = "finished"
            /\ UNCHANGED <<last_op, ops_done, integ_pc, integ_args>>
    /\ UNCHANGED <<pool_vars, file_vars, run_vars, git_vars, merge_index,
                   merged_branches, integ_log, integ_result,
                   resume_completed, resume_selected>>
    /\ UNCHANGED <<aux_vars, last_event, events>>

\* cli.py 465: error_msg or "Integration failed"
or_default(error_msg) ==
    IF error_msg = None THEN IntegrationFailed ELSE error_msg

\* cli.py 461-472
ResumeIntegrateReturns ==
    /\ resume_pc = "integrating"
    /\ integ_pc = "returned"
    /\ integ_pc' = "done"
    /\ resume_pc' = "finished"
    /\ IF integ_result.success
       THEN Store(complete_run(load, RID, integ_result.pr_url),
                  complete_run(serial, RID, integ_result.pr_url))
       ELSE Store(fail_run(load, RID, or_default(integ_result.error_msg)),
                  fail_run(serial, RID, or_default(integ_result.error_msg)))
    /\ UNCHANGED <<last_op, ops_done, pool_vars, file_vars, run_vars, git_vars,
                   integ_args, merge_index, merged_branches, integ_log,
                   integ_result, resume_completed, resume_selected>>
    /\ UNCHANGED <<aux_vars, last_event, events>>

\* cli.py 447 and 474: an error raised by integrate_results ends the command
ResumeIntegrateRaises ==
    /\ resume_pc = "integrating"
    /\ integ_pc = "raised"
    /\ integ_pc' = "done"
    /\ resume_pc' = "raised"
    /\ UNCHANGED <<store_vars, pool_vars, file_vars, run_vars, git_vars,
                   integ_args, merge_index, merged_branches, integ_log,
                   integ_result, resume_completed, resume_selected>>
    /\ UNCHANGED <<aux_vars, last_event, events>>

\* session.py 37-46 with orchestrator.py 258, 305, 358, 380, 419, 151 and
\* 214: the events.jsonl the earlier process of the run left behind, the
\* workers having run one after the other in plan order.  A pending worker
\* logged nothing, a running one its worker_start; a failed one ended with
\* worker_complete, with worker_error, or was skipped and logged nothing.
\* A run that ended failed got as far as a failed merge_result.
RECURSIVE PriorLog(_, _, _, _, _)
PriorLog(tasks, r, statuses, how, end) ==
    IF r = 0
    THEN <<[event |-> "plan_start"], [event |-> "plan_complete"]>>
    ELSE LET w == tasks[r]
             start == [event |-> "worker_start", worker_id |-> w]
             before == PriorLog(tasks, r - 1, statuses, how, "none")
             mine == CASE statuses[w] = "pending" -> <<>>
                       [] statuses[w] = "running" -> <<start>>
                       [] statuses[w] = "completed" ->
                            <<start, [event |-> "worker_complete",
                                      worker_id |-> w, success |-> TRUE]>>
                       [] statuses[w] = "failed" /\ how[w] = "worker_complete" ->
                            <<start, [event |-> "worker_complete",
                                      worker_id |-> w, success |-> FALSE]>>
                       [] statuses[w] = "failed" /\ how[w] = "worker_error" ->
                            <<start, [event |-> "worker_error",
                                      worker_id |-> w]>>
                       [] OTHER -> <<>>
             after == IF end = "failed"
                      THEN <<[event |-> "integration_start"],
                             [event |-> "merge_result", success |-> FALSE]>>
                      ELSE <<>>
         IN before \o mine \o after

\* How the earlier process ended: "interrupted" after the emergency cleanup
\* (orchestrator.py 487-500), "failed" after the finalize phase of run(),
\* "killed" without any cleanup during the execute phase.
\* The repository as each ending leaves it: the emergency cleanup deletes
\* every worktree and every swarm branch and removes the coordination
\* directory; the finalize phase removes the worktrees and the coordination
\* directory and keeps the branches; a killed process removes nothing.
ResumeInit ==
    /\ \E mw \in 1..MaxWorkersCfg, o \in {"pr-gated", "checkpoint"} :
         config = [max_workers |-> mw, max_cost |-> 5, oversight |-> o,
                   dry_run |-> FALSE, create_pr |-> TRUE]
    /\ \E n \in 1..config.max_workers,
          end \in {"interrupted", "failed", "killed"} :
         \E r \in (IF end = "failed" THEN {n} ELSE 0..n) :
           LET tasks == SubSeq(AllTasks, 1, n)
               registered == {tasks[i] : i \in 1..r}
           IN \E statuses \in [registered ->
                               {"pending", "running", "completed", "failed"}] :
                /\ end = "failed" =>
                     /\ \A w \in registered : statuses[w] \in {"completed", "failed"}
                     /\ \E w \in registered : statuses[w] = "completed"
                /\ state_file = save(PriorDoc(tasks, registered, statuses, end))
                /\ serial = PriorDoc(tasks, registered, statuses, end)
                /\ status_log = <<PriorDoc(tasks, registered, statuses, end).runs[RID].status>>
                /\ branches =
                     IF end = "interrupted" THEN {}
                     ELSE {get_branch_name(w) : w \in registered}
                          \cup (IF end = "failed"
                                THEN {get_branch_name(IntegrationId)} ELSE {})
                /\ disk_worktrees = IF end = "killed" THEN registered ELSE {}
                /\ coord_dir = (end = "killed" /\ r > 0)
                /\ gc_auto_off = (end = "killed")
                /\ \E how \in [{w \in registered : statuses[w] = "failed"} ->
                                 {"worker_complete", "worker_error", "skipped"}] :
                     LET log == PriorLog(tasks, r, statuses, how, end)
                     IN /\ events = SetToBag({log[i] : i \in 1..Len(log)})
                        /\ last_event = log[Len(log)].event
    /\ mgr_worktrees = {}
    /\ mgr_gc_disabled = FALSE
    /\ last_op = [op |-> NoOp, before |-> SwarmState]
    /\ ops_done = 0
    /\ RunIdle
    /\ PoolIdle
    /\ FileIdle
    /\ IntegIdle
    /\ AuxIdle({"events"})
    /\ resume_pc = "start"
    /\ resume_completed = <<>>
    /\ resume_selected = <<>>

ResumeNext ==
    \/ ResumeSelect
    \/ ResumeRefuses
    \/ PoolStep
    \/ ResumeWorkersReturn
    \/ ResumeWorkersRaise
    \/ ResumeCombine
    \/ IntegStep
    \/ ResumeIntegrateReturns
    \/ ResumeIntegrateRaises

SpecResume == ResumeInit /\ [][ResumeNext]_vars

\* ------------------------------------------- the clean-ups of a run
\* The three places where a process cleans up after its run, each started
\* from a repository that may also hold a worktree and a branch of another
\* run: the finalize phase of run() (Cleanup), the return after a refused
\* checkpoint 2 (DeclinedIntegrate), and Orchestrator.cleanup, which the CLI
\* calls when run() is interrupted.

\* orchestrator.py 487-500: each step is in its own try/except Exception,
\* so the next step is taken whether or not the step raised
after_step_stops_on_error(step, ok) ==
    IF ~ok THEN "raised"
    ELSE CASE step = "set_status" -> "worktrees"
           [] step = "worktrees" -> "coordination"
           [] step = "coordination" -> "done"

after_step(step, ok) ==
    CASE step = "set_status" -> "worktrees"
      [] step = "worktrees" -> "coordination"
      [] step = "coordination" -> "done"

\* lines 489-492: set_run_status(interrupted); the save may raise
CleanupSetStatus ==
    /\ cleanup_pc = "set_status"
    /\ \E ok \in BOOLEAN :
         /\ IF ok
            THEN /\ Store(set_run_status(load, RID, "interrupted"),
                          set_run_status(serial, RID, "interrupted"))
                 /\ UNCHANGED <<last_op, ops_done>>
            ELSE UNCHANGED store_vars
         /\ cleanup_log' = Append(cleanup_log, [step |-> "set_status", ok |-> ok])
         /\ cleanup_pc' = after_step("set_status", ok)
    /\ UNCHANGED <<pool_vars, file_vars, run_vars, git_vars, integ_vars,
                   resume_vars, retry_pc, retry_cfg, attempts, retry_result,
                   agent_tasks, issue, git_call, last_event, events>>

\* lines 493-496: cleanup_all(force=True); git that cannot be started raises
\* before anything is removed
CleanupWorktrees ==
    /\ cleanup_pc = "worktrees"
    /\ \E ok \in BOOLEAN :
         /\ IF ok THEN cleanup_all(TRUE)
            ELSE UNCHANGED <<branches, disk_worktrees, mgr_worktrees,
                             gc_auto_off, mgr_gc_disabled>>
         /\ cleanup_log' = Append(cleanup_log, [step |-> "worktrees", ok |-> ok])
         /\ cleanup_pc' = after_step("worktrees", ok)
    /\ UNCHANGED <<store_vars, pool_vars, file_vars, run_vars, coord_dir,
                   integ_vars, resume_vars, retry_pc, retry_cfg, attempts,
                   retry_result, agent_tasks, issue, git_call, last_event,
                   events>>

\* lines 497-500: coord_mgr.cleanup(); rmtree may raise
CleanupCoordination ==
    /\ cleanup_pc = "coordination"
    /\ \E ok \in BOOLEAN :
         /\ coord_dir' = IF ok THEN FALSE ELSE coord_dir
         /\ cleanup_log' = Append(cleanup_log,
                                  [step |-> "coordination", ok |-> ok])
         /\ cleanup_pc' = after_step("coordination", ok)
    /\ UNCHANGED <<store_vars, pool_vars, file_vars, run_vars, branches,
                   disk_worktrees, mgr_worktrees, gc_auto_off,
                   mgr_gc_disabled, integ_vars, resume_vars, retry_pc,
                   retry_cfg, attempts, retry_result, agent_tasks, issue,
                   git_call, last_event, events>>

\* The process at the start of a clean-up: at the finalize phase with every
\* worker finished and the run completed, after the refusal of checkpoint 2
\* with the run interrupted, or interrupted while planning or executing.
\* n workers have their worktree and branch; setup tells whether
\* _execute_workers has begun (gc.auto disabled, coordination directory
\* made), integ whether the integration worktree exists.
CleanupInit ==
    /\ \E start \in {"cleanup", "declined2", "interrupted"},
          n \in 0..MaxWorkersCfg, setup \in BOOLEAN, integ \in BOOLEAN,
          other_worktree \in BOOLEAN, other_branch \in BOOLEAN :
         LET tasks == SubSeq(AllTasks, 1, n)
             ids == {tasks[i] : i \in 1..n}
             status == IF start = "interrupted" THEN "running" ELSE "completed"
             doc == PriorDoc(tasks, ids, [w \in ids |-> status], "killed")
             ended == CASE start = "cleanup" -> complete_run(doc, RID, None).state
                        [] start = "declined2" ->
                             set_run_status(doc, RID, "interrupted").state
                        [] start = "interrupted" -> doc
             integration == IF integ THEN {IntegrationId} ELSE {}
         IN /\ start # "interrupted" => setup
            /\ n > 0 => setup
            /\ start = "declined2" => n > 0
            /\ integ => setup /\ start # "declined2"
            /\ plan_tasks = tasks
            /\ state_file = save(ended)
            /\ serial = ended
            /\ status_log = <<ended.runs[RID].status>>
            /\ mgr_worktrees = ids \cup integration
            /\ disk_worktrees = ids \cup integration \cup
                   (IF other_worktree THEN {OtherRunWorktree} ELSE {})
            /\ branches = {get_branch_name(w) : w \in ids \cup integration} \cup
                   (IF other_branch THEN {OtherRunBranch} ELSE {})
            /\ gc_auto_off = setup
            /\ mgr_gc_disabled = setup
            /\ coord_dir = setup
            /\ run_pc = start
            /\ cleanup_pc = IF start = "interrupted" THEN "set_status" ELSE "idle"
    /\ config = [DefaultConfig EXCEPT !.max_workers = MaxWorkersCfg]
    /\ last_op = [op |-> NoOp, before |-> SwarmState]
    /\ ops_done = 0
    /\ run_error = None
    /\ integration_success = FALSE
    /\ run_pr_url = None
    /\ exec_pc = "idle"
    /\ created = 0
    /\ slot_pc = <<>>
    /\ sem_value = 0
    /\ running_cost = 0
    /\ cost_exceeded = FALSE
    /\ runner_result = <<>>
    /\ slot_result = <<>>
    /\ final_results = <<>>
    /\ executed = {}
    /\ finished_before = 0
    /\ entry_flag = <<>>
    /\ caught = {}
    /\ FileIdle
    /\ IntegIdle
    /\ ResumeIdle
    /\ cleanup_log = <<>>
    /\ AuxIdle({"cleanup"})

CleanupNext ==
    \/ Cleanup
    \/ DeclinedIntegrate
    \/ CleanupSetStatus
    \/ CleanupWorktrees
    \/ CleanupCoordination

SpecCleanup == CleanupInit /\ [][CleanupNext]_vars

\* C11: when integrate_results raised an integration error, run() returns
\* instead of raising, the run is persisted as failed with the message of
\* that error, and the worktrees and the coordination directory are gone.
C11_IntegrationErrorPersisted ==
    ( /\ integ_result.kind = "raise"
      /\ integ_result.error \in {"IntegrationError", "MergeConflictError"}
      /\ run_pc \in {"returned", "exited"} )
    => /\ load.runs[RID].status = "failed"
       /\ load.runs[RID].error = integ_result.message
       /\ disk_worktrees = {}
       /\ ~coord_dir

\* C12: in checkpoint mode, once run() has returned after a refusal at
\* checkpoint 1, no worktree was created, no worker was executed and the
\* persisted status of the run is interrupted.
C12_DeclinedPlanInterrupted ==
    ( /\ config.oversight = "checkpoint"
      /\ Len(status_log) >= 3
      /\ status_log[2] = "paused_checkpoint"
      /\ status_log[3] = "interrupted"
      /\ run_pc \in {"returned", "exited"} )
    => /\ created = 0
       /\ branches = {}
       /\ disk_worktrees = {}
       /\ final_results = <<>>
       /\ load.runs[RID].status = "interrupted"

C14_PrOnlyAfterApproval ==
    config.oversight = "checkpoint" =>
        /\ integ_pc # "idle" => ~integ_args.create_pr
        /\ (\E i \in 1..Len(integ_log) : integ_log[i].op \in {"push", "pr"}) =>
             /\ integ_result.kind = "return"
             /\ integ_result.success
             /\ \E j \in 2..Len(status_log) :
                  /\ status_log[j - 1] = "paused_checkpoint"
                  /\ status_log[j] = "integrating"

\* C15: the plan that resume hands to _execute_workers is exactly the stored
\* plan's tasks whose persisted worker status was pending or failed, in plan
\* order; no worker persisted as completed is handed to the Worker Runner,
\* and every fresh result belongs to a selected task.
C15_ResumeReexecutesPendingOrFailed ==
    resume_pc \in {"executing", "combining", "integrating", "finished", "raised"} =>
        LET before == last_op.before.runs[RID]
            wanted == SelectSeq(before.plan.tasks,
                        LAMBDA t : /\ t \in DOMAIN before.workers
                                   /\ before.workers[t].status \in {"pending", "failed"})
        IN /\ plan_tasks = wanted
           /\ \A i \in executed :
                /\ plan_tasks[i] \in DOMAIN before.workers
                /\ before.workers[plan_tasks[i]].status # "completed"
           /\ \A k \in 1..Len(final_results) :
                \E j \in 1..Len(wanted) : wanted[j] = final_results[k].worker_id

\* a run with w1 completed, w2 failed and w3 or nothing else: resume
\* re-executed w2 alone and it succeeded
C15_Witness ==
    /\ resume_pc = "combining"
    /\ "w1" \in DOMAIN last_op.before.runs[RID].workers
    /\ last_op.before.runs[RID].workers["w1"].status = "completed"
    /\ "w2" \in DOMAIN last_op.before.runs[RID].workers
    /\ last_op.before.runs[RID].workers["w2"].status = "failed"
    /\ plan_tasks = <<"w2">>
    /\ Len(final_results) = 1
    /\ final_results[1].worker_id = "w2"
    /\ final_results[1].success

\* C16: when resume integrates, the branch of every previously completed
\* worker and of every worker that succeeded on re-execution exists, and
\* when the integration has succeeded each of those branches was merged by
\* git into the integration branch.
C16_ResumedIntegrationHasEveryBranch ==
    (resume_pc \in {"integrating", "finished", "raised"} /\ integ_pc # "idle") =>
        /\ \A k \in 1..Len(successful_workers) :
             get_branch_name(successful_workers[k].worker_id) \in branches
        /\ (integ_result.kind = "return" /\ integ_result.success) =>
             \A k \in 1..Len(successful_workers) :
               \E i \in 1..Len(integ_log) :
                 integ_log[i] =
                   [op |-> "merge",
                    branch |-> get_branch_name(successful_workers[k].worker_id)]

\* C17: when resume has finished, the finalize phase has run: no worktree
\* is left, the coordination directory is removed and gc.auto is restored.
C17_ResumeFinalizes ==
    resume_pc = "finished" =>
        /\ disk_worktrees = {}
        /\ ~coord_dir
        /\ ~gc_auto_off

\* C18: in every integration the branches are merged in plan order: of two
\* merged branches the one merged first belongs to the task that comes first
\* in the stored plan.
C18_MergedInPlanOrder ==
    LET tasks == load.runs[RID].plan.tasks
        pos(b) == CHOOSE p \in 1..Len(tasks) : get_branch_name(tasks[p]) = b
    IN /\ \A i \in 1..Len(merged_branches) :
            \E p \in 1..Len(tasks) : get_branch_name(tasks[p]) = merged_branches[i]
       /\ \A i, j \in 1..Len(merged_branches) :
            i < j => pos(merged_branches[i]) < pos(merged_branches[j])

\* C19: when the merge of a branch failed and the conflict was not resolved
\* (resolution disabled, or the resolver failed), the merge is aborted and
\* nothing follows it (no later merge, build, test, review, push or PR), and
\* integrate_results raises MergeConflictError whose conflicting_branches is
\* the offending branch followed by the branches merged before, in order.
C19_MergeConflictStopsIntegration ==
    LET merged_in(log) ==
          LET done == SelectSeq(log, LAMBDA e : e.op \in {"merge", "resolved"})
          IN [i \in 1..Len(done) |-> done[i].branch]
    IN
    \A k \in 1..Len(integ_log) :
        ( /\ integ_log[k].op = "merge_failed"
          /\ ~(k = Len(integ_log) /\ integ_pc = "resolving")
          /\ ~(k < Len(integ_log) /\ integ_log[k + 1].op = "resolved") )
        => /\ Len(integ_log) = k + 1
           /\ integ_log[k + 1] = [op |-> "abort", branch |-> integ_log[k].branch]
           /\ integ_pc \in {"raised", "done"}
           /\ integ_result.kind = "raise"
           /\ integ_result.error = "MergeConflictError"
           /\ integ_result.conflicting_branches =
                <<integ_log[k].branch>> \o merged_in(SubSeq(integ_log, 1, k - 1))

\* two branches were merged and the merge of the third failed
C19_Witness ==
    /\ integ_pc = "raised"
    /\ integ_result.kind = "raise"
    /\ integ_result.error = "MergeConflictError"
    /\ integ_result.conflicting_branches =
         <<get_branch_name("w3"), get_branch_name("w1"), get_branch_name("w2")>>

\* C20: the integration branch is pushed and the PR created only after every
\* successful worker's branch was merged and every build and test command
\* that ran exited zero; a failing build or test is the last step taken (a
\* failing build prevents the test) and makes integrate_results return
\* (false, none, message) with no push and no PR.
C20_PrAfterMergeBuildTest ==
    /\ \A i \in 1..Len(integ_log) :
         integ_log[i].op \in {"push", "pr"} =>
           /\ \A k \in 1..Len(successful_workers) :
                \E j \in 1..(i - 1) :
                  /\ integ_log[j].op \in {"merge", "resolved"}
                  /\ integ_log[j].branch =
                       get_branch_name(successful_workers[k].worker_id)
           /\ \A j \in 1..(i - 1) :
                integ_log[j].op \in {"build", "test"} => integ_log[j].ok
    /\ \A i \in 1..Len(integ_log) :
         (integ_log[i].op \in {"build", "test"} /\ ~integ_log[i].ok) =>
           /\ i = Len(integ_log)
           /\ integ_pc \in {"returned", "done"}
           /\ integ_result =
                Returned(FALSE, None,
                         IF integ_log[i].op = "build"
                         THEN "Build failed: <output>"
                         ELSE "Tests failed: <output>")

\* three branches merged, build and test passed, the PR was created
C20_Witness ==
    /\ integ_pc = "returned"
    /\ integ_result = Returned(TRUE, "https://pr", None)
    /\ Len(merged_branches) = 3
    /\ \E i, j \in 1..Len(integ_log) :
         /\ integ_log[i] = [op |-> "build", ok |-> TRUE]
         /\ integ_log[j] = [op |-> "test", ok |-> TRUE]
    /\ integ_log[Len(integ_log)].op = "pr"

\* C21: spawn_worker_with_retry makes its attempts one after another, goes
\* on only after an attempt that returned a failed result, never makes more
\* than max_retries attempts, and when every attempt returned a failed
\* result it returns (does not raise) the last one; the returned result's
\* attempt field is the number of the last attempt made.
C21_RetryUntilSuccessOrExhausted ==
    /\ Len(attempts) <= retry_cfg.max_retries
    /\ \A k \in 1..(Len(attempts) - 1) : attempts[k].outcome = "failure"
    /\ retry_pc = "running" => Len(attempts) < retry_cfg.max_retries
    /\ retry_pc = "returned" =>
         /\ attempts # <<>>
         /\ retry_result.attempt = Len(attempts)
         /\ retry_result.success = (attempts[Len(attempts)].outcome = "success")
         /\ ~retry_result.success => Len(attempts) = retry_cfg.max_retries
    /\ ( /\ Len(attempts) = retry_cfg.max_retries
         /\ \A k \in 1..Len(attempts) : attempts[k].outcome = "failure" )
       => /\ retry_pc = "returned"
          /\ ~retry_result.success
          /\ retry_result.attempt = retry_cfg.max_retries

\* three attempts were allowed and all three returned a failed result
C21_Witness ==
    /\ retry_pc = "returned"
    /\ retry_cfg.max_retries = 3
    /\ Len(attempts) = 3
    /\ ~retry_result.success
    /\ retry_result.attempt = 3

C23_CompletedTotalIsSum ==
    \A r \in DOMAIN load.runs :
        load.runs[r].status = "completed" =>
            load.runs[r].total_cost_usd =
                Sum([w \in {x \in DOMAIN load.runs[r].workers :
                              load.runs[r].workers[x].cost_usd # NoCost} |->
                        load.runs[r].workers[w].cost_usd])

\* a completed run with two workers that both reported a cost
C23_Witness ==
    /\ RID \in DOMAIN load.runs
    /\ load.runs[RID].status = "completed"
    /\ DOMAIN load.runs[RID].workers = {"w1", "w2"}
    /\ load.runs[RID].workers["w1"].cost_usd = 5
    /\ load.runs[RID].workers["w2"].cost_usd = 10
    /\ load.runs[RID].total_cost_usd = 15

\* C24: in every persisted document of a run the orchestrator drives, fresh
\* or resumed, a worker whose status is completed or failed has completed_at
\* set and a worker whose status is running has started_at set.
C24_WorkerTimestamps ==
    \A r \in DOMAIN load.runs :
        \A w \in DOMAIN load.runs[r].workers :
            LET ws == load.runs[r].workers[w]
            IN /\ ws.status \in {"completed", "failed"} =>
                      ws.completed_at # None
               /\ ws.status = "running" => ws.started_at # None

\* one worker has finished while another one is still running
C24_Witness ==
    /\ RID \in DOMAIN load.runs
    /\ \E w1, w2 \in DOMAIN load.runs[RID].workers :
          /\ load.runs[RID].workers[w1].status = "running"
          /\ load.runs[RID].workers[w1].started_at = Now
          /\ load.runs[RID].workers[w2].status \in {"completed", "failed"}
          /\ load.runs[RID].workers[w2].completed_at = Now

\* C25: in a dry run the persisted status of the run goes from planning
\* directly to completed, no worktree, branch or coordination directory is
\* created, no worker is registered or handed to the Worker Runner, and
\* plan_complete stays the last event of the log.
C25_DryRunStopsAfterPlan ==
    config.dry_run =>
        /\ status_log \in {<<>>, <<"planning">>, <<"planning", "completed">>}
        /\ run_pc \in {"returned", "exited"} /\ run_error = None =>
               status_log = <<"planning", "completed">>
        /\ disk_worktrees = {} /\ mgr_worktrees = {} /\ branches = {}
        /\ ~coord_dir
        /\ created = 0 /\ executed = {}
        /\ RID \in DOMAIN load.runs => DOMAIN load.runs[RID].workers = {}
        /\ last_event \in {None, "plan_start", "plan_complete"}
        /\ run_pc \in {"dry_run", "returned", "exited"} /\ run_error = None =>
               last_event = "plan_complete"

\* a dry run whose plan has two tasks has returned
C25_Witness ==
    /\ config.dry_run
    /\ run_pc = "returned"
    /\ run_error = None
    /\ Len(plan_tasks) = 2
    /\ status_log = <<"planning", "completed">>
    /\ last_event = "plan_complete"

\* C26: the emergency cleanup attempts its three steps in order (persist
\* status interrupted, force-remove the worktrees and branches, remove the
\* coordination directory); a step that raises does not keep the later steps
\* from being attempted and nothing propagates out of cleanup; when the
\* state write succeeded the persisted status of the run is interrupted.
C26_EmergencyCleanupAttemptsEveryStep ==
    run_pc = "interrupted" =>
        LET order == <<"set_status", "worktrees", "coordination", "done">>
        IN /\ Len(cleanup_log) <= 3
           /\ \A i \in 1..Len(cleanup_log) : cleanup_log[i].step = order[i]
           /\ cleanup_pc = order[Len(cleanup_log) + 1]
           /\ Len(cleanup_log) >= 1 /\ cleanup_log[1].ok =>
                  load.runs[RID].status = "interrupted"
           /\ Len(cleanup_log) >= 2 /\ cleanup_log[2].ok =>
                  branches = {} /\ disk_worktrees = {}
           /\ Len(cleanup_log) = 3 /\ cleanup_log[3].ok => ~coord_dir

\* the first two steps raised and the third was still attempted and removed
\* the coordination directory
C26_Witness ==
    /\ run_pc = "interrupted"
    /\ cleanup_pc = "done"
    /\ Len(cleanup_log) = 3
    /\ ~cleanup_log[1].ok
    /\ ~cleanup_log[2].ok
    /\ cleanup_log[3].ok
    /\ disk_worktrees # {}
    /\ ~coord_dir

\* C28: cleanup_all without force removes every worktree this manager
\* created and deletes no branch; the worktrees and branches of other runs
\* are left as they were.
NonForceCleanupEffect ==
    /\ disk_worktrees' \cap mgr_worktrees = {}
    /\ mgr_worktrees' = {}
    /\ branches' = branches
    /\ (OtherRunWorktree \in disk_worktrees') =
           (OtherRunWorktree \in disk_worktrees)

C27_CoordDirRemovedOnEveryReturn ==
    /\ run_pc = "executing" /\ exec_pc \in {"creating", "gathering", "returned"}
           => coord_dir
    /\ run_pc \in {"checkpoint2", "prompt2", "declined2", "integrate",
                   "integrating", "checkpoint3", "prompt3", "create_pr",
                   "summary", "cleanup"} => coord_dir
    /\ run_pc = "returned"
           /\ (\E i \in 1..Len(status_log) : status_log[i] = "executing")
           => ~coord_dir

\* C29: the plan the Planner returns has at most max_workers tasks, and when
\* the agent produced more it is the first max_workers tasks of the agent's
\* list, in the agent's order.
C29_PlanIsFirstMaxWorkersTasks ==
    run_pc \notin {"idle", "planning"} /\ run_error # "PlanningError" =>
        /\ Len(plan_tasks) <= config.max_workers
        /\ Len(agent_tasks) > config.max_workers =>
               plan_tasks = SubSeq(agent_tasks, 1, config.max_workers)
        /\ Len(agent_tasks) <= config.max_workers => plan_tasks = agent_tasks

\* the agent listed three tasks for two workers and the first two were kept
C29_Witness ==
    /\ run_pc \in {"dry_run", "checkpoint1"}
    /\ config.max_workers = 2
    /\ agent_tasks = <<"w1", "w2", "w3">>
    /\ plan_tasks = <<"w1", "w2">>

\* C30: with max_workers = 1 the Planner, whatever the agent's output (an
\* empty task list included), returns a plan of exactly one task or raises
\* PlanningError.
C30_OneWorkerPlanHasOneTask ==
    config.max_workers = 1 /\ run_pc \in {"dry_run", "checkpoint1"} =>
        Len(plan_tasks) = 1

\* C33: throughout the execute phase the running tally is the sum of the
\* present cost_usd of the workers whose result has been recorded; the flag
\* is set exactly when the tally is strictly above max_cost; once set it is
\* never cleared; and recording a result without a cost changes neither.
RecordedSlots ==
    {i \in Slots : slot_pc[i] = "done" /\ i \in executed /\ i \notin caught}

TallyMatchesRecorded ==
    PoolLaunched =>
        /\ running_cost =
             Sum([i \in {j \in RecordedSlots : slot_result[j].cost_usd # NoCost}
                    |-> slot_result[i].cost_usd])
        /\ cost_exceeded = (running_cost > config.max_cost)

RecordsNoCost ==
    \E i \in DOMAIN slot_pc : /\ slot_pc[i] = "collecting"
                              /\ slot_pc'[i] = "done"
                              /\ i \notin caught'
                              /\ runner_result[i].cost_usd = NoCost

C33_TallyAndFlag ==
    /\ []TallyMatchesRecorded
    /\ [][cost_exceeded => cost_exceeded']_vars
    /\ [][RecordsNoCost => (running_cost' = running_cost
                            /\ cost_exceeded' = cost_exceeded)]_vars

\* the tally stands exactly at max_cost after a recorded result and a
\* result without a cost, and the flag is clear
C33_Witness ==
    /\ PoolLaunched
    /\ running_cost = config.max_cost
    /\ ~cost_exceeded
    /\ \E i, j \in RecordedSlots : /\ slot_result[i].cost_usd = 5
                                   /\ slot_result[j].cost_usd = NoCost

\* C31: auto-merge is invoked only under autonomous oversight with a PR URL
\* obtained in this run, at most once per run and with one GitHub CLI call
\* (no direct merge after a failure); a failed auto-merge leaves the outcome
\* of the run as it was: completed, with the PR URL.
MergeCalls == SelectSeq(integ_log, LAMBDA e : e.op \in {"pr_merge_auto", "pr_merge"})

C31_AutoMergeOnceAndNonFatal ==
    /\ Len(MergeCalls) <= 1
    /\ MergeCalls # <<>> =>
          /\ MergeCalls[1].op = "pr_merge_auto"
          /\ config.oversight = "autonomous"
          /\ run_pr_url # None
          /\ integration_success
    /\ config.oversight = "autonomous" /\ run_pr_url # None
          /\ run_pc \in {"summary", "cleanup", "returned"} => Len(MergeCalls) = 1
    /\ MergeCalls # <<>> /\ run_pc \in {"cleanup", "returned"} =>
          /\ load.runs[RID].status = "completed"
          /\ load.runs[RID].pr_url = run_pr_url

\* the auto-merge failed and the run still ended completed with its PR URL
C31_Witness ==
    /\ run_pc = "returned"
    /\ MergeCalls = <<[op |-> "pr_merge_auto", ok |-> FALSE]>>
    /\ load.runs[RID].status = "completed"
    /\ load.runs[RID].pr_url = "https://pr"

\* C32: the issue carries swarm:done, or is closed, only if its orchestrator
\* run succeeded; after a run that raised, whose integration did not
\* succeed or in which no worker succeeded it is neither; and it never
\* carries swarm:done and swarm:failed together.
C32_DoneOnlyAfterSuccessfulRun ==
    /\ "swarm:done" \in issue.labels => issue.run = "succeeded"
    /\ ~issue.open => issue.run = "succeeded"
    /\ ~{"swarm:done", "swarm:failed"} \subseteq issue.labels

\* the stderr texts that contain "lock" in some spelling
C34_LockTexts ==
    {<<"l", "o", "c", "k">>, <<"L", "o", "c", "k">>,
     <<"a", " ", "L", "O", "C", "K">>}

C34_LockFailure(run) == run.returncode # 0 /\ run.err \in C34_LockTexts

\* C34: _run_git(retries = N) runs git at most N times; every run but the
\* last ended non-zero with "lock" in stderr in some spelling; a zero exit
\* ends the call with that run's stdout; a non-zero exit without "lock"
\* under check raises WorktreeError at once; N lock failures under check
\* raise "failed after N retries".
C34_RunGitRetriesOnlyOnLock ==
    LET runs == git_call.runs
        n == Len(runs)
        N == git_call.retries
    IN git_call.pc # "idle" =>
         /\ n <= N
         /\ \A i \in 1..(n - 1) : C34_LockFailure(runs[i])
         /\ (n > 0 /\ runs[n].returncode = 0) =>
               /\ git_call.pc = "done"
               /\ git_call.result = [kind |-> "returned", out |-> runs[n].out]
         /\ (n > 0 /\ runs[n].returncode # 0 /\ ~C34_LockFailure(runs[n])
               /\ git_call.check) =>
               /\ git_call.pc = "done"
               /\ git_call.result = [kind |-> "raised", error |-> "failed",
                                     err |-> runs[n].err]
         /\ (n = N /\ git_call.pc = "done" /\ git_call.check
               /\ \A i \in 1..n : C34_LockFailure(runs[i])) =>
               git_call.result = [kind |-> "raised",
                                  error |-> "failed after retries", n |-> N]

\* three lock failures in three spellings used up retries = 3 under check
C34_Witness ==
    /\ git_call.pc = "done"
    /\ git_call.retries = 3
    /\ git_call.check
    /\ Len(git_call.runs) = 3
    /\ {git_call.runs[i].err : i \in 1..3} = C34_LockTexts
    /\ \A i \in 1..3 : git_call.runs[i].returncode # 0
    /\ git_call.result.kind = "raised"

\* C35: under every interleaving the workers handed to the Worker Runner
\* number at most max_workers + the completions recorded strictly before
\* the tally first exceeded max_cost; every one of them got its permit
\* while the flag was clear; and once the flag is set, at most max_workers
\* of them are not among those earlier completions.
C35_StartsOnlyWhileFlagClear ==
    PoolLaunched =>
        /\ \A i \in executed : entry_flag[i] = "clear"
        /\ Cardinality(executed) <= config.max_workers + finished_before
        /\ cost_exceeded =>
              Cardinality(executed) - finished_before <= config.max_workers

\* one worker completed below the limit, then two ran side by side and
\* one of them set the flag: the bound is reached
C35_Witness ==
    /\ PoolDone
    /\ cost_exceeded
    /\ config.max_workers = 2
    /\ finished_before = 1
    /\ Cardinality(executed) = 3

\* C36: an attempt that raises is the last one: spawn_worker_with_retry
\* makes no further attempt, whatever max_retries allows, and the
\* WorkerError goes to its caller; every attempt that was followed by
\* another returned a failed result.
C36_RaisingAttemptNotRetried ==
    /\ \A k \in 1..Len(attempts) :
         attempts[k].outcome = "raise" =>
             /\ k = Len(attempts)
             /\ retry_pc = "raised"
    /\ \A k \in 1..(Len(attempts) - 1) : attempts[k].outcome = "failure"
    /\ retry_pc = "raised" => attempts[Len(attempts)].outcome = "raise"

\* the second of three allowed attempts raised after a failed first one
C36_Witness ==
    /\ retry_pc = "raised"
    /\ retry_cfg.max_retries = 3
    /\ Len(attempts) = 2
    /\ attempts[1].outcome = "failure"
    /\ attempts[2].outcome = "raise"

\* C37: after the finalize phase has persisted the outcome, the run is
\* failed exactly when some worker succeeded and integration did not
\* succeed, and completed otherwise; when no worker succeeded the
\* Integrator was never invoked and the run is completed with no PR URL.
C37_FailedIffSuccessWithoutIntegration ==
    run_pc = "cleanup" =>
        /\ load.runs[RID].status =
              IF successful # {} /\ ~integration_success
              THEN "failed" ELSE "completed"
        /\ successful = {} =>
              /\ integ_pc = "idle"
              /\ integ_log = <<>>
              /\ integ_result.kind = "none"
              /\ load.runs[RID].status = "completed"
              /\ load.runs[RID].pr_url = None

\* two workers ran and both failed: finalization without integration
C37_Witness ==
    /\ run_pc = "cleanup"
    /\ Len(final_results) = 2
    /\ successful = {}
    /\ load.runs[RID].status = "completed"
    /\ integ_pc = "idle"

\* the worker is persisted as running when the resume command starts
C38_LeftRunning(w) ==
    /\ resume_pc = "start"
    /\ w \in DOMAIN load.runs[RID].workers
    /\ load.runs[RID].workers[w].status = "running"

\* the resume has not chosen the worker, run it, or handed a result of it
\* to the Integrator
C38_Untouched(w) ==
    /\ \A i \in 1..Len(resume_selected) : resume_selected[i] # w
    /\ \A i \in 1..Len(resume_completed) : resume_completed[i] # w
    /\ \A i \in 1..Len(plan_tasks) : plan_tasks[i] # w
    /\ \A i \in 1..Len(integ_args.input) : integ_args.input[i].worker_id # w
    /\ \A i \in 1..Len(merged_branches) :
         merged_branches[i] # get_branch_name(w)

\* C38: a worker whose persisted status is still running when the run was
\* interrupted is, on resume, never re-executed and never part of the
\* integration input.
C38_RunningWorkerLeftOut ==
    \A w \in {AllTasks[i] : i \in 1..Len(AllTasks)} :
        C38_LeftRunning(w) => []C38_Untouched(w)

\* a resume reached the Integrator while a worker of the run it resumed
\* is still persisted as running
C38_Witness ==
    /\ resume_pc = "integrating"
    /\ integ_args.input # <<>>
    /\ resume_selected # <<>>
    /\ \E w \in DOMAIN load.runs[RID].workers :
         /\ load.runs[RID].workers[w].status = "running"
         /\ \A i \in 1..Len(plan_tasks) : plan_tasks[i] # w

\* C39: provided every Worker Runner call returns or raises, a pool that
\* was launched ends: every slot yields a result and _execute_workers
\* returns one result per task.
C39_PoolTerminates ==
    (exec_pc = "gathering") ~>
        (exec_pc = "returned" /\ Len(final_results) = Len(plan_tasks))

\* a pool of three slots on one permit ended after a runner call raised,
\* another returned and a slot was skipped
C39_Witness ==
    /\ PoolDone
    /\ config.max_workers = 1
    /\ Len(final_results) = 3
    /\ caught # {}
    /\ \E i \in Slots : entry_flag[i] = "set"
    /\ \E i \in executed : i \notin caught

\* the records of one kind, and of one kind and worker, in the event log
C40_Logged(kind) == \E e \in BagToSet(events) : e.event = kind

C40_LoggedFor(kind, w) ==
    \E e \in BagToSet(events) : e.event = kind /\ e.worker_id = w

\* C40: in the event log of one run plan_start precedes plan_complete,
\* which precedes every worker_start; a worker has at most one
\* worker_start, and it precedes the worker's worker_complete or
\* worker_error; integration_start follows the last worker_complete or
\* worker_error and precedes every merge_result; pr_created follows a
\* merge_result with success = true; a skipped worker has no worker_start
\* and no worker_complete.  The log only grows, so "a precedes b" is: at
\* every moment, b in the log implies a in the log.
C40_EventOrder ==
    LET workers == {AllTasks[i] : i \in 1..Len(AllTasks)}
    IN /\ C40_Logged("plan_complete") => C40_Logged("plan_start")
       /\ C40_Logged("worker_start") => C40_Logged("plan_complete")
       /\ \A w \in workers :
            /\ CopiesIn([event |-> "worker_start", worker_id |-> w],
                        events) <= 1
            /\ (C40_LoggedFor("worker_complete", w)
                  \/ C40_LoggedFor("worker_error", w))
                 => C40_LoggedFor("worker_start", w)
       /\ last_event \in {"worker_start", "worker_complete", "worker_error"}
            => ~C40_Logged("integration_start")
       /\ C40_Logged("merge_result") => C40_Logged("integration_start")
       /\ C40_Logged("pr_created") =>
            \E e \in BagToSet(events) :
                e.event = "merge_result" /\ e.success
       /\ PoolLaunched =>
            \A i \in DOMAIN entry_flag :
                entry_flag[i] = "set" =>
                    /\ ~C40_LoggedFor("worker_start", plan_tasks[i])
                    /\ ~C40_LoggedFor("worker_complete", plan_tasks[i])

====
